---- MODULE Spec2Model ----
(***************************************************************************)
(* A model of the task store (contexts/TaskContext.tsx), the task form     *)
(* (components/TaskForm.tsx), the dashboard page that wires them together  *)
(* (app/page.tsx), the filter pipeline, the Gantt timeline                 *)
(* (components/GanttTimeline.tsx, components/TaskBar.tsx) and the date     *)
(* utilities (lib/timelineUtils.ts) of the Gantt chart dashboard.          *)
(*                                                                         *)
(* Conventions.                                                            *)
(*   - A JavaScript string that the code inspects character by character   *)
(*     (a task title, the search text) is a sequence of one-character      *)
(*     strings; '' is << >>.  Identifiers, statuses and assignee names are *)
(*     only ever compared for equality and are TLA+ strings.               *)
(*   - A Date is the integer it compares as (its time value); the          *)
(*     timeline section gives that integer a calendar day and a time of    *)
(*     day, and the preset section, which builds Dates from year, month    *)
(*     and day, writes a Date as that calendar date.                       *)
(*   - An optional Date (Date | null, Date | undefined) is << >> when      *)
(*     absent and << d >> when present.                                    *)
(*   - An optional string field (dependencyId?: string) holds Undefined    *)
(*     when absent; a nullable id (string | null) holds Null.              *)
(*   - The createdAt and updatedAt of a task, which are written by the     *)
(*     form and read by nothing, are left out of the task record.          *)
(***************************************************************************)
EXTENDS Integers, Sequences, FiniteSets, TLC

VARIABLES
    state,          \* the TaskState held by useReducer in TaskProvider
    prevState,      \* history: the TaskState the last dispatch was applied to
    lastAction,     \* history: the last TaskAction dispatched
    isFormOpen,     \* DashboardContent: useState(false)
    editingTask,    \* DashboardContent: useState<Task | undefined>
    errors,         \* TaskForm: the validation errors, field -> message
    touched,        \* TaskForm: the fields marked as touched
    now,            \* the millisecond clock read by Date.now() / new Date()
    fTasks,         \* filter pipeline: the task list given to the function
    fFilters,       \* filter pipeline: the Filters given to the function
    fDateRange,     \* filter pipeline: the DateRange given to the function
    fResult,        \* filter pipeline: what the function applied last returned
    fApplied,       \* filter pipeline: which function was applied last
    tlTasks,        \* GanttTimeline: the tasks prop
    tlView,         \* GanttTimeline: the timelineView prop
    tlClock,        \* GanttTimeline: the clock read by new Date()
    tlRender,       \* GanttTimeline: what the last render computed
    pNow,           \* date presets: the calendar date read by new Date()
    searchInput,    \* FilterControls: useState(state.filters.searchText)
    timers,         \* the pending setTimeout timers of the debounce effect
    effectTimer,    \* FilterControls: the timer the effect's cleanup clears
    nextTimerId,    \* the id the next setTimeout returns
    quiet,          \* history: the time since the search input last changed
    lastEvent,      \* history: the last event of FilterControls
    sinceChange,    \* history: the SET_SEARCH dispatches since the input changed
    pickedStart,    \* DateRangeFilter: useState startDate
    pickedEnd,      \* DateRangeFilter: useState endDate
    toast,          \* the toast shown last
    focusedTaskIndex, \* GanttTimeline: useState(-1)
    lastKey         \* history: the key handleKeyDown handled last

vars == << state, prevState, lastAction, isFormOpen, editingTask, errors,
           touched, now, fTasks, fFilters, fDateRange, fResult, fApplied,
           tlTasks, tlView, tlClock, tlRender, pNow,
           searchInput, timers, effectTimer, nextTimerId, quiet, lastEvent, sinceChange,
           pickedStart, pickedEnd, toast, focusedTaskIndex, lastKey >>

storeVars  == << state, prevState, lastAction >>
formVars   == << isFormOpen, editingTask, errors, touched, now >>
filterVars == << fTasks, fFilters, fDateRange, fResult, fApplied >>
timelineVars == << tlTasks, tlView, tlClock, tlRender >>
presetVars == << pNow >>
searchVars == << searchInput, timers, effectTimer, nextTimerId, quiet, lastEvent, sinceChange >>
dateVars == << pickedStart, pickedEnd, toast >>
focusVars == << focusedTaskIndex, lastKey >>

----------------------------------------------------------------------------
(* Bounds of the model.                                                    *)

\* The store commands of SpecStore stop adding at this many tasks.
MaxStoreTasks == 3

\* The form of Spec stops creating at this many tasks.
MaxTasks == 2

\* The clock of Spec stops advancing at this reading.
MaxClock == 2

\* The search strings of SpecFilter have at most this many characters.
MaxSearchLen == 2

----------------------------------------------------------------------------
(* Values.                                                                 *)

Undefined == "undefined"
Null      == "null"
NoDate    == << >>

SomeDate(d) == << d >>

\* types/index.ts: TaskStatus
TaskStatus == { "not-started", "in-progress", "completed", "blocked" }

\* TaskForm.tsx: ASSIGNEE_OPTIONS (the first two of the roster of eight)
ASSIGNEE_OPTIONS == { "Alice Johnson", "Bob Smith" }

\* TaskContext.tsx: DateRangePreset
DateRangePreset == { "all", "this-month", "next-month", "this-quarter",
                     "next-quarter", "this-year", "next-year", "custom" }

TimelineViews == { "day", "week", "month" }

ProjectIds == { "project-1", "project-2" }

\* types/index.ts: interface Task
Task(id, projectId, title, status, assignee, startDate, endDate, dependencyId) ==
    [ id |-> id, projectId |-> projectId, title |-> title, status |-> status,
      assignee |-> assignee, startDate |-> startDate, endDate |-> endDate,
      dependencyId |-> dependencyId ]

\* Array.prototype.includes
Includes(s, x) == \E i \in 1..Len(s) : s[i] = x

Range(s) == { s[i] : i \in 1..Len(s) }

----------------------------------------------------------------------------
(* The reducer (TaskContext.tsx, taskReducer).                             *)

initialFilters == [ status |-> << >>, assignee |-> << >>, searchText |-> << >> ]

initialDateRange == [ start |-> NoDate, end |-> NoDate, preset |-> "all" ]

SELECT_PROJECT(s, payload) == [ s EXCEPT !.selectedProjectId = payload ]

\* ADD_TASK that refuses a task whose id is already stored
ADD_TASK_RefusesKnownId(s, payload) ==
    IF \E i \in 1..Len(s.tasks) : s.tasks[i].id = payload.id
        THEN s
        ELSE [ s EXCEPT !.tasks = Append(s.tasks, payload) ]

ADD_TASK(s, payload) == [ s EXCEPT !.tasks = Append(s.tasks, payload) ]

\* UPDATE_TASK as an upsert: the payload is appended when no id matches
UPDATE_TASK_Upserts(s, payload) ==
    IF \E i \in 1..Len(s.tasks) : s.tasks[i].id = payload.id
        THEN [ s EXCEPT !.tasks =
                 [ i \in 1..Len(s.tasks) |->
                     IF s.tasks[i].id = payload.id THEN payload ELSE s.tasks[i] ] ]
        ELSE [ s EXCEPT !.tasks = Append(s.tasks, payload) ]

\* UPDATE_TASK as a merge that keeps the stored entry's dependencyId
UPDATE_TASK_KeepsDependency(s, payload) ==
    [ s EXCEPT !.tasks =
        [ i \in 1..Len(s.tasks) |->
            IF s.tasks[i].id = payload.id
                THEN [ payload EXCEPT !.dependencyId = s.tasks[i].dependencyId ]
                ELSE s.tasks[i] ] ]

UPDATE_TASK(s, payload) ==
    [ s EXCEPT !.tasks =
        [ i \in 1..Len(s.tasks) |->
            IF s.tasks[i].id = payload.id THEN payload ELSE s.tasks[i] ] ]

\* DELETE_TASK without the .map(): references to the deleted task are kept
DELETE_TASK_KeepsReferences(s, payload) ==
    LET Keep(task) == task.id # payload
    IN  [ s EXCEPT !.tasks = SelectSeq(s.tasks, Keep) ]

DELETE_TASK(s, payload) ==
    LET Keep(task) == task.id # payload
        kept == SelectSeq(s.tasks, Keep)
    IN  [ s EXCEPT !.tasks =
            [ i \in 1..Len(kept) |->
                IF kept[i].dependencyId = payload
                    THEN [ kept[i] EXCEPT !.dependencyId = Undefined ]
                    ELSE kept[i] ] ]

\* SET_FILTER that replaces the filters by the payload over empty filters
SET_FILTER_ResetsOtherFilters(s, payload) ==
    [ s EXCEPT !.filters =
        [ f \in DOMAIN s.filters |->
            IF f \in DOMAIN payload THEN payload[f] ELSE << >> ] ]

SET_FILTER(s, payload) ==
    [ s EXCEPT !.filters =
        [ f \in DOMAIN s.filters |->
            IF f \in DOMAIN payload THEN payload[f] ELSE s.filters[f] ] ]

SET_SEARCH(s, payload) == [ s EXCEPT !.filters.searchText = payload ]

SET_TIMELINE_VIEW(s, payload) == [ s EXCEPT !.timelineView = payload ]

SET_DATE_RANGE(s, payload) == [ s EXCEPT !.dateRange = payload ]

taskReducer(s, action) ==
    CASE action.type = "SELECT_PROJECT"    -> SELECT_PROJECT(s, action.payload)
      [] action.type = "ADD_TASK"          -> ADD_TASK(s, action.payload)
      [] action.type = "UPDATE_TASK"       -> UPDATE_TASK(s, action.payload)
      [] action.type = "DELETE_TASK"       -> DELETE_TASK(s, action.payload)
      [] action.type = "SET_FILTER"        -> SET_FILTER(s, action.payload)
      [] action.type = "SET_SEARCH"        -> SET_SEARCH(s, action.payload)
      [] action.type = "SET_TIMELINE_VIEW" -> SET_TIMELINE_VIEW(s, action.payload)
      [] action.type = "SET_DATE_RANGE"    -> SET_DATE_RANGE(s, action.payload)
      [] OTHER                             -> s

TaskAction(type, payload) == [ type |-> type, payload |-> payload ]

NoAction == TaskAction("@@INIT", Null)

\* useReducer's dispatch: the next state is the reducer's result, whole
dispatch(action) == state' = taskReducer(state, action)

\* history of SpecStore: the state before the dispatch, and the action
recorded(action) ==
    /\ prevState' = state
    /\ lastAction' = action

historyIdle ==
    /\ prevState = state
    /\ lastAction = NoAction

----------------------------------------------------------------------------
(* Strings (String.prototype.trim, toLowerCase, includes).                 *)

\* the white space of the model's alphabet
IsSpace(c) == c = " "

\* String.prototype.toLowerCase on one character of the model's alphabet
LowerOf(c) ==
    CASE c = "A" -> "a"
      [] c = "B" -> "b"
      [] c = "D" -> "d"
      [] c = "E" -> "e"
      [] OTHER   -> c

toLowerCase(str) == [ i \in 1..Len(str) |-> LowerOf(str[i]) ]

\* String.prototype.trim: the string without its leading and trailing white space
trim(str) ==
    LET solid == { i \in 1..Len(str) : ~IsSpace(str[i]) }
        first == CHOOSE i \in solid : \A j \in solid : i <= j
        last  == CHOOSE i \in solid : \A j \in solid : i >= j
    IN  IF solid = { } THEN << >> ELSE SubSeq(str, first, last)

\* String.prototype.includes: sub occurs in str as a substring
includes(str, sub) ==
    \E k \in 0..(Len(str) - Len(sub)) : SubSeq(str, k + 1, k + Len(sub)) = sub

----------------------------------------------------------------------------
(* The filter pipeline (TaskContext.tsx, filterByStatus .. useFilteredTasks). *)

\* filterByStatus taking an empty selection to select nothing
filterByStatus_EmptySelectsNone(tasks, statusFilters) ==
    LET Keep(task) == Includes(statusFilters, task.status)
    IN  SelectSeq(tasks, Keep)

filterByStatus(tasks, statusFilters) ==
    LET Keep(task) == Includes(statusFilters, task.status)
    IN  IF Len(statusFilters) = 0 THEN tasks ELSE SelectSeq(tasks, Keep)

filterByAssignee(tasks, assigneeFilters) ==
    LET Keep(task) == Includes(assigneeFilters, task.assignee)
    IN  IF Len(assigneeFilters) = 0 THEN tasks ELSE SelectSeq(tasks, Keep)

\* searchByTitle stopping at the first task that matches
searchByTitle_FirstMatchOnly(tasks, searchText) ==
    LET lowerSearchText == toLowerCase(searchText)
        Keep(task) == includes(toLowerCase(task.title), lowerSearchText)
        matches == SelectSeq(tasks, Keep)
    IN  IF trim(searchText) = << >> THEN tasks
        ELSE IF matches = << >> THEN << >> ELSE << Head(matches) >>

\* searchByTitle comparing the title as written, not lower-cased
searchByTitle_CaseSensitive(tasks, searchText) ==
    LET lowerSearchText == toLowerCase(searchText)
        Keep(task) == includes(task.title, lowerSearchText)
    IN  IF trim(searchText) = << >> THEN tasks ELSE SelectSeq(tasks, Keep)

searchByTitle(tasks, searchText) ==
    LET lowerSearchText == toLowerCase(searchText)
        Keep(task) == includes(toLowerCase(task.title), lowerSearchText)
    IN  IF trim(searchText) = << >> THEN tasks ELSE SelectSeq(tasks, Keep)

\* filterByDateRange without the shortcut for the preset 'all'
filterByDateRange_IgnoresPresetAll(tasks, dateRange) ==
    LET rangeStart == dateRange.start
        rangeEnd == dateRange.end
        Keep(task) ==
            IF rangeStart # NoDate /\ rangeEnd # NoDate
                THEN task.startDate <= rangeEnd[1] /\ task.endDate >= rangeStart[1]
            ELSE IF rangeStart # NoDate THEN task.endDate >= rangeStart[1]
            ELSE IF rangeEnd # NoDate THEN task.startDate <= rangeEnd[1]
            ELSE TRUE
    IN  SelectSeq(tasks, Keep)

filterByDateRange(tasks, dateRange) ==
    LET rangeStart == dateRange.start
        rangeEnd == dateRange.end
        Keep(task) ==
            IF rangeStart # NoDate /\ rangeEnd # NoDate
                THEN task.startDate <= rangeEnd[1] /\ task.endDate >= rangeStart[1]
            ELSE IF rangeStart # NoDate THEN task.endDate >= rangeStart[1]
            ELSE IF rangeEnd # NoDate THEN task.startDate <= rangeEnd[1]
            ELSE TRUE
    IN  IF dateRange.preset = "all" \/ (rangeStart = NoDate /\ rangeEnd = NoDate)
            THEN tasks
            ELSE SelectSeq(tasks, Keep)

\* getFilteredTasks losing the last task of its result
getFilteredTasks_DropsLastKept(tasks, filters, dateRange) ==
    LET byStatus   == filterByStatus(tasks, filters.status)
        byAssignee == filterByAssignee(byStatus, filters.assignee)
        bySearch   == searchByTitle(byAssignee, filters.searchText)
        byDate     == filterByDateRange(bySearch, dateRange)
    IN  IF byDate = << >> THEN << >> ELSE SubSeq(byDate, 1, Len(byDate) - 1)

\* getFilteredTasks with the assignee stage fed from the unfiltered list
getFilteredTasks_DropsStatusStage(tasks, filters, dateRange) ==
    LET byAssignee == filterByAssignee(tasks, filters.assignee)
        bySearch   == searchByTitle(byAssignee, filters.searchText)
    IN  filterByDateRange(bySearch, dateRange)

getFilteredTasks(tasks, filters, dateRange) ==
    LET byStatus   == filterByStatus(tasks, filters.status)
        byAssignee == filterByAssignee(byStatus, filters.assignee)
        bySearch   == searchByTitle(byAssignee, filters.searchText)
    IN  filterByDateRange(bySearch, dateRange)

\* useFilteredTasks without the selection by project
projectTasksOf_AllProjects(s) == s.tasks

\* the tasks of the selected project (all tasks when no project is selected)
projectTasksOf(s) ==
    LET InProject(task) == task.projectId = s.selectedProjectId
    IN  IF s.selectedProjectId # Null THEN SelectSeq(s.tasks, InProject) ELSE s.tasks

useFilteredTasks == getFilteredTasks(projectTasksOf(state), state.filters, state.dateRange)

----------------------------------------------------------------------------
(* SpecStore: the store driven directly by its task commands, with any     *)
(* payload (useTaskActions: addTask, updateTask, deleteTask).  The store   *)
(* checks nothing, so every task list is a list it can hold.               *)

StoreIds == { "task-1", "task-2", "task-3" }

\* an id no sample task carries
MissingId == "task-9"

StoreTask(id, title, dependencyId) ==
    Task(id, "project-1", title, "not-started", "Alice Johnson", 1, 2, dependencyId)

\* the payloads of addTask and updateTask: the chain A, B (on A), C (on B) of
\* spec.md section 8, a second task on A, a task on itself, and edited copies
StoreTasks ==
    { StoreTask(id, << "A" >>, Undefined) : id \in StoreIds \cup { MissingId } }
      \cup { StoreTask(id, << "B" >>, "task-1") : id \in { "task-2", "task-3" } }
      \cup { StoreTask(id, << "B" >>, "task-2") : id \in { "task-2", "task-3" } }

\* TaskContext.tsx: initialState, with the seed data left out
initialState ==
    [ projects |-> << "project-1", "project-2" >>,
      tasks |-> << >>,
      selectedProjectId |-> Null,
      filters |-> initialFilters,
      timelineView |-> "day",
      dateRange |-> initialDateRange ]

\* a state in which every field differs from its initial value
busyState ==
    [ initialState EXCEPT
        !.selectedProjectId = "project-1",
        !.filters = [ status |-> << "blocked" >>, assignee |-> << "Bob Smith" >>,
                      searchText |-> << "a" >> ],
        !.timelineView = "week",
        !.dateRange = [ start |-> SomeDate(1), end |-> SomeDate(2), preset |-> "custom" ] ]

formClosed ==
    /\ isFormOpen = FALSE
    /\ editingTask = << >>
    /\ errors = << >>
    /\ touched = { }
    /\ now = 1

filterIdle ==
    /\ fTasks = << >>
    /\ fFilters = initialFilters
    /\ fDateRange = initialDateRange
    /\ fResult = << >>
    /\ fApplied = "none"

timelineIdle ==
    /\ tlTasks = << >>
    /\ tlView = "day"
    /\ tlClock = 0
    /\ tlRender = << >>

presetIdle == pNow = << >>

dateIdle ==
    /\ pickedStart = << >>
    /\ pickedEnd = << >>
    /\ toast = "none"

focusIdle ==
    /\ focusedTaskIndex = -1
    /\ lastKey = "none"

searchIdle ==
    /\ searchInput = << >>
    /\ timers = { }
    /\ effectTimer = 0
    /\ nextTimerId = 1
    /\ quiet = 0
    /\ lastEvent = [ name |-> "none", value |-> << >>, quiet |-> 0 ]
    /\ sinceChange = [ timer |-> 0, handler |-> 0 ]

StoreInit ==
    /\ state \in { initialState, busyState }
    /\ historyIdle
    /\ formClosed
    /\ filterIdle
    /\ timelineIdle
    /\ presetIdle
    /\ searchIdle
    /\ dateIdle
    /\ focusIdle

addTask(task) ==
    /\ Len(state.tasks) < MaxStoreTasks
    /\ dispatch(TaskAction("ADD_TASK", task))
    /\ recorded(TaskAction("ADD_TASK", task))
    /\ UNCHANGED << formVars, filterVars, timelineVars, presetVars, searchVars, dateVars, focusVars >>

updateTask(task) ==
    /\ dispatch(TaskAction("UPDATE_TASK", task))
    /\ recorded(TaskAction("UPDATE_TASK", task))
    /\ UNCHANGED << formVars, filterVars, timelineVars, presetVars, searchVars, dateVars, focusVars >>

deleteTask(taskId) ==
    /\ dispatch(TaskAction("DELETE_TASK", taskId))
    /\ recorded(TaskAction("DELETE_TASK", taskId))
    /\ UNCHANGED << formVars, filterVars, timelineVars, presetVars, searchVars, dateVars, focusVars >>

StoreNext ==
    \/ \E task \in StoreTasks \ { StoreTask(MissingId, << "A" >>, Undefined) } : addTask(task)
    \/ \E task \in StoreTasks : updateTask(task)
    \/ \E taskId \in StoreIds \cup { MissingId } : deleteTask(taskId)

SpecStore == StoreInit /\ [][StoreNext]_vars

----------------------------------------------------------------------------
(* Claims about the store commands (SpecStore).                            *)

\* every field of the TaskState but tasks is as it was before the dispatch
OtherFieldsUnchanged ==
    \A f \in DOMAIN state \ { "tasks" } : state[f] = prevState[f]

\* the tasks of before that do not carry id, by their index
Survivors(before, id) == { i \in 1..Len(before) : before[i].id # id }

\* the place of survivor i among the survivors
PlaceOf(before, id, i) == Cardinality({ k \in Survivors(before, id) : k <= i })

\* C1: deleteTask(id) is one transition after which no task with that id
\* remains, every remaining task that depended on id has no dependency, every
\* other remaining task is unchanged (dependencyId included) and in its old
\* order, and no other field of the state has changed.
C1_DeleteTaskClearsReferences ==
    lastAction.type = "DELETE_TASK" =>
        LET id == lastAction.payload
            before == prevState.tasks
            after == state.tasks
        IN  /\ \A j \in 1..Len(after) : after[j].id # id
            /\ Len(after) = Cardinality(Survivors(before, id))
            /\ \A i \in Survivors(before, id) :
                  after[PlaceOf(before, id, i)] =
                      IF before[i].dependencyId = id
                          THEN [ before[i] EXCEPT !.dependencyId = Undefined ]
                          ELSE before[i]
            /\ OtherFieldsUnchanged

\* C1 witness: the chain A, B (on A), C (on B); B has just been deleted,
\* leaving A as it was and C without a dependency.
C1_Witness ==
    /\ lastAction.type = "DELETE_TASK"
    /\ lastAction.payload = "task-2"
    /\ prevState.tasks = << StoreTask("task-1", << "A" >>, Undefined),
                            StoreTask("task-2", << "B" >>, "task-1"),
                            StoreTask("task-3", << "B" >>, "task-2") >>
    /\ state.tasks = << StoreTask("task-1", << "A" >>, Undefined),
                        StoreTask("task-3", << "B" >>, Undefined) >>

\* the id an update or a delete command names
CommandId(action) ==
    IF action.type = "UPDATE_TASK" THEN action.payload.id ELSE action.payload

\* no task of the list carries id
Unmatched(tasks, id) == \A i \in 1..Len(tasks) : tasks[i].id # id

\* no task of the list names id as its dependency
Unreferenced(tasks, id) == \A i \in 1..Len(tasks) : tasks[i].dependencyId # id

\* C7 as stated: updateTask with a task whose id no stored task carries, and
\* deleteTask with such an id, change nothing: the task list (contents, order,
\* every dependencyId) and every other field are as before.
C7_UnmatchedIdIsNoOp ==
    ( /\ lastAction.type \in { "UPDATE_TASK", "DELETE_TASK" }
      /\ Unmatched(prevState.tasks, CommandId(lastAction)) )
    => state = prevState

\* C7 as amended: updateTask with an unmatched id changes nothing, and
\* deleteTask with an unmatched id changes nothing provided no stored task
\* names that id as its dependencyId (a reference to it is cleared even though
\* no task is removed).
C7_UnmatchedUnreferencedIdIsNoOp ==
    ( /\ lastAction.type \in { "UPDATE_TASK", "DELETE_TASK" }
      /\ Unmatched(prevState.tasks, CommandId(lastAction))
      /\ \/ lastAction.type = "UPDATE_TASK"
         \/ Unreferenced(prevState.tasks, CommandId(lastAction)) )
    => state = prevState

\* C7 witness: a delete with an unmatched, unreferenced id has just been
\* applied to a store that holds a task depending on another.
C7_Witness ==
    /\ lastAction.type = "DELETE_TASK"
    /\ Unmatched(prevState.tasks, lastAction.payload)
    /\ Unreferenced(prevState.tasks, lastAction.payload)
    /\ Len(prevState.tasks) >= 2
    /\ \E i \in 1..Len(prevState.tasks) : prevState.tasks[i].dependencyId # Undefined

\* C8: updateTask(t) puts t in the place of the stored entry whose id is t.id;
\* the number of tasks and their order are unchanged, every task with another
\* id is unchanged, and no other field of the state has changed.
C8_UpdateTaskReplacesInPlace ==
    lastAction.type = "UPDATE_TASK" =>
        LET t == lastAction.payload
            before == prevState.tasks
            after == state.tasks
        IN  /\ Len(after) = Len(before)
            /\ \A i \in 1..Len(before) :
                  /\ before[i].id = t.id => after[i] = t
                  /\ before[i].id # t.id => after[i] = before[i]
            /\ OtherFieldsUnchanged

\* C8 witness: an update has just replaced a stored task by a different one,
\* in a store that also holds a task with another id.
C8_Witness ==
    /\ lastAction.type = "UPDATE_TASK"
    /\ \E i, j \in 1..Len(prevState.tasks) :
          /\ prevState.tasks[i].id = lastAction.payload.id
          /\ prevState.tasks[i] # lastAction.payload
          /\ state.tasks[i] = lastAction.payload
          /\ prevState.tasks[j].id # lastAction.payload.id

----------------------------------------------------------------------------
(* The task form (TaskForm.tsx) and the page that hosts it (app/page.tsx). *)

NoTask == << >>

AllFields == { "title", "status", "assignee", "startDate", "endDate" }

\* the values of the form's fields when it is submitted
FormFields(title, status, assignee, startDate, endDate, dependencyId) ==
    [ title |-> title, status |-> status, assignee |-> assignee,
      startDate |-> startDate, endDate |-> endDate, dependencyId |-> dependencyId ]

\* validateForm without the comparison of the two dates
validateForm_WithoutDateOrder(f) ==
    LET invalid ==
            { x \in AllFields :
                \/ x = "title" /\ trim(f.title) = << >>
                \/ x = "status" /\ f.status = ""
                \/ x = "assignee" /\ f.assignee = ""
                \/ x = "startDate" /\ f.startDate = NoDate
                \/ x = "endDate" /\ f.endDate = NoDate }
    IN  [ x \in invalid |->
            CASE x = "title"     -> "Title is required"
              [] x = "status"    -> "Please select a status"
              [] x = "assignee"  -> "Please select an assignee"
              [] x = "startDate" -> "Start date is required"
              [] x = "endDate"   -> "End date is required" ]

\* validateForm testing the title as typed, not trimmed
validateForm_WithoutTrim(f) ==
    LET outOfOrder == f.startDate # NoDate /\ f.endDate # NoDate /\ f.endDate[1] < f.startDate[1]
        invalid ==
            { x \in AllFields :
                \/ x = "title" /\ f.title = << >>
                \/ x = "status" /\ f.status = ""
                \/ x = "assignee" /\ f.assignee = ""
                \/ x = "startDate" /\ f.startDate = NoDate
                \/ x = "endDate" /\ (f.endDate = NoDate \/ outOfOrder) }
    IN  [ x \in invalid |->
            CASE x = "title"     -> "Title is required"
              [] x = "status"    -> "Please select a status"
              [] x = "assignee"  -> "Please select an assignee"
              [] x = "startDate" -> "Start date is required"
              [] x = "endDate"   -> IF outOfOrder THEN "End date must be after start date"
                                                  ELSE "End date is required" ]

\* validateForm: newErrors, field -> message; the form is valid when it is empty
validateForm(f) ==
    LET outOfOrder == f.startDate # NoDate /\ f.endDate # NoDate /\ f.endDate[1] < f.startDate[1]
        invalid ==
            { x \in AllFields :
                \/ x = "title" /\ trim(f.title) = << >>
                \/ x = "status" /\ f.status = ""
                \/ x = "assignee" /\ f.assignee = ""
                \/ x = "startDate" /\ f.startDate = NoDate
                \/ x = "endDate" /\ (f.endDate = NoDate \/ outOfOrder) }
    IN  [ x \in invalid |->
            CASE x = "title"     -> "Title is required"
              [] x = "status"    -> "Please select a status"
              [] x = "assignee"  -> "Please select an assignee"
              [] x = "startDate" -> "Start date is required"
              [] x = "endDate"   -> IF outOfOrder THEN "End date must be after start date"
                                                  ELSE "End date is required" ]

\* `task-${Date.now()}`
TaskIdOf(clock) == "task-" \o ToString(clock)

\* page.tsx: the tasks handed to the form as availableTasks
projectTasks ==
    LET InProject(task) == task.projectId = state.selectedProjectId
    IN  IF state.selectedProjectId # Null THEN SelectSeq(state.tasks, InProject) ELSE << >>

\* TaskForm: the tasks offered as a dependency
dependencyOptions(task, projectId, availableTasks) ==
    LET Offered(t) == (task = NoTask \/ t.id # task[1].id) /\ t.projectId = projectId
    IN  SelectSeq(availableTasks, Offered)

\* TaskForm: the value the dependency field starts with, task?.dependencyId || ''
initialDependencyId(task) ==
    IF task = NoTask \/ task[1].dependencyId = Undefined THEN "" ELSE task[1].dependencyId

\* TaskForm: the values the dependency field can hold at submission: the one
\* it started with, or an item of the Select (None, whose value is "0", and
\* one item per dependency option)
dependencyValues(task, projectId, availableTasks) ==
    { initialDependencyId(task), "0" }
        \cup { t.id : t \in Range(dependencyOptions(task, projectId, availableTasks)) }

\* handleSubmit: the Task built from the fields
taskData(f) ==
    Task(IF editingTask # NoTask THEN editingTask[1].id ELSE TaskIdOf(now),
         state.selectedProjectId, f.title, f.status, f.assignee,
         f.startDate[1], f.endDate[1],
         IF f.dependencyId = "" THEN Undefined ELSE f.dependencyId)

\* page.tsx handleFormSubmit
handleFormSubmit(task) ==
    /\ IF editingTask # NoTask
           THEN dispatch(TaskAction("UPDATE_TASK", task))
           ELSE dispatch(TaskAction("ADD_TASK", task))
    /\ isFormOpen' = FALSE
    /\ editingTask' = NoTask

\* the form is on the page: page.tsx renders it under this condition
formShown == isFormOpen /\ state.selectedProjectId # Null

\* TaskForm handleSubmit, with the fields as they stand at submission.
\* The field setters and handleBlur only prepare that input: errors and
\* touched are followed here at submission, where handleSubmit touches
\* every field and validateForm rewrites errors as a whole.
handleSubmit(f) ==
    /\ formShown
    /\ \/ /\ validateForm(f) # << >>
          /\ touched' = AllFields
          /\ errors' = validateForm(f)
          /\ UNCHANGED << state, isFormOpen, editingTask >>
       \/ /\ validateForm(f) = << >>
          /\ editingTask = NoTask => Len(state.tasks) < MaxTasks
          /\ handleFormSubmit(taskData(f))
          /\ touched' = { }
          /\ errors' = << >>
    /\ UNCHANGED << now, prevState, lastAction, filterVars, timelineVars, presetVars, searchVars, dateVars, focusVars >>

\* page.tsx handleCreateTask (the button is part of the task-management view,
\* which the open form's modal overlay covers)
handleCreateTask ==
    /\ state.selectedProjectId # Null
    /\ ~isFormOpen
    /\ editingTask' = NoTask
    /\ isFormOpen' = TRUE
    /\ errors' = << >>
    /\ touched' = { }
    /\ UNCHANGED << state, now, prevState, lastAction, filterVars, timelineVars, presetVars, searchVars, dateVars, focusVars >>

\* page.tsx onTaskSelect -> handleEditTask: a displayed task is selected and
\* the first task of the project with its id is put in the form
handleEditTask(index) ==
    /\ state.selectedProjectId # Null
    /\ ~isFormOpen
    /\ index \in 1..Len(useFilteredTasks)
    /\ LET taskId == useFilteredTasks[index].id
           found == { j \in 1..Len(projectTasks) : projectTasks[j].id = taskId }
           first == CHOOSE j \in found : \A k \in found : j <= k
       IN  /\ found # { }
           /\ editingTask' = << projectTasks[first] >>
    /\ isFormOpen' = TRUE
    /\ errors' = << >>
    /\ touched' = { }
    /\ UNCHANGED << state, now, prevState, lastAction, filterVars, timelineVars, presetVars, searchVars, dateVars, focusVars >>

\* page.tsx handleFormCancel
handleFormCancel ==
    /\ formShown
    /\ isFormOpen' = FALSE
    /\ editingTask' = NoTask
    /\ errors' = << >>
    /\ touched' = { }
    /\ UNCHANGED << state, now, prevState, lastAction, filterVars, timelineVars, presetVars, searchVars, dateVars, focusVars >>

\* TaskForm handleDelete -> page.tsx handleDeleteTask
handleDelete ==
    /\ formShown
    /\ editingTask # NoTask
    /\ dispatch(TaskAction("DELETE_TASK", editingTask[1].id))
    /\ isFormOpen' = FALSE
    /\ editingTask' = NoTask
    /\ errors' = << >>
    /\ touched' = { }
    /\ UNCHANGED << now, prevState, lastAction, filterVars, timelineVars, presetVars, searchVars, dateVars, focusVars >>

\* ProjectSelector onSelectProject (covered by the modal overlay while the
\* form is open)
selectProject(projectId) ==
    /\ ~isFormOpen
    /\ dispatch(TaskAction("SELECT_PROJECT", projectId))
    /\ UNCHANGED << formVars, prevState, lastAction, filterVars, timelineVars, presetVars, searchVars, dateVars, focusVars >>

\* the millisecond clock advances
tick ==
    /\ now < MaxClock
    /\ now' = now + 1
    /\ UNCHANGED << state, isFormOpen, editingTask, errors, touched, prevState, lastAction, filterVars, timelineVars, presetVars, searchVars, dateVars, focusVars >>

Init ==
    /\ state = initialState
    /\ historyIdle
    /\ formClosed
    /\ filterIdle
    /\ timelineIdle
    /\ presetIdle
    /\ searchIdle
    /\ dateIdle
    /\ focusIdle

\* Spec: the page driven by its user; the fields vary in the title and in
\* the dependency
SubmitInputs ==
    { FormFields(title, "not-started", "Alice Johnson", SomeDate(1), SomeDate(2), dependencyId) :
        title \in { << >>, << "A" >> },
        dependencyId \in dependencyValues(editingTask, state.selectedProjectId, projectTasks) }

Next ==
    \/ \E projectId \in ProjectIds \cup { Null } : selectProject(projectId)
    \/ handleCreateTask
    \/ \E index \in 1..MaxTasks : handleEditTask(index)
    \/ \E f \in SubmitInputs : handleSubmit(f)
    \/ handleFormCancel
    \/ handleDelete
    \/ tick

Spec == Init /\ [][Next]_vars

\* SpecForm: the page driven by its user in one project; the fields vary in
\* everything validateForm reads, the dependency field is left as it starts
FormSubmitInputs ==
    { FormFields(title, "in-progress", assignee, startDate, endDate, initialDependencyId(editingTask)) :
        title \in { << >>, << " " >>, << " ", "A" >> },
        assignee \in { "", "Alice Johnson" },
        startDate \in { NoDate, SomeDate(1), SomeDate(2) },
        endDate \in { NoDate, SomeDate(1), SomeDate(2) } }

FormNext ==
    \/ \E projectId \in { "project-1", Null } : selectProject(projectId)
    \/ handleCreateTask
    \/ \E index \in 1..MaxTasks : handleEditTask(index)
    \/ \E f \in FormSubmitInputs : handleSubmit(f)
    \/ handleFormCancel
    \/ handleDelete
    \/ tick

SpecForm == Init /\ [][FormNext]_vars

----------------------------------------------------------------------------
(* Claims about the tasks that enter the store through the form.           *)

\* C2: every stored task's dependencyId is absent or the id of a task that
\* is in the store, after any sequence of form submissions (with any value
\* the dependency selector offers) and deletions.
C2_NoDanglingReference ==
    \A i \in 1..Len(state.tasks) :
        \/ state.tasks[i].dependencyId = Undefined
        \/ \E j \in 1..Len(state.tasks) : state.tasks[j].id = state.tasks[i].dependencyId

\* C3: no stored task has its own id as its dependencyId, after any sequence
\* of form submissions and deletions.
C3_NoSelfDependency ==
    \A i \in 1..Len(state.tasks) : state.tasks[i].dependencyId # state.tasks[i].id

\* C4: no two stored tasks have the same id, after any sequence of form
\* submissions (a created task's id is task-<clock reading>) and deletions.
C4_UniqueTaskIds ==
    \A i, j \in 1..Len(state.tasks) : i # j => state.tasks[i].id # state.tasks[j].id

\* C5: every stored task ends on or after the date it starts, in every
\* state reached by creating and editing tasks through the form.
C5_EndNotBeforeStart ==
    \A i \in 1..Len(state.tasks) : state.tasks[i].endDate >= state.tasks[i].startDate

\* C5 witness: the store holds a task that ends after it starts and another
\* that ends the day it starts, both entered through the form.
C5_Witness ==
    \E i, j \in 1..Len(state.tasks) :
        /\ state.tasks[i].endDate > state.tasks[i].startDate
        /\ state.tasks[j].endDate = state.tasks[j].startDate

\* the validation rules, as the fields f break them
TitleMissing(f) == \A i \in 1..Len(f.title) : f.title[i] = " "

DatesOutOfOrder(f) ==
    f.startDate # NoDate /\ f.endDate # NoDate /\ f.endDate[1] < f.startDate[1]

\* the fields of f that break a rule
OffendingFields(f) ==
    { x \in { "title" } : TitleMissing(f) }
        \cup { x \in { "assignee" } : f.assignee = "" }
        \cup { x \in { "startDate" } : f.startDate = NoDate }
        \cup { x \in { "endDate" } : f.endDate = NoDate \/ DatesOutOfOrder(f) }

\* C6: a submission whose fields break a validation rule (title empty after
\* trimming, assignee, start date or end date missing, end before start)
\* dispatches nothing: the whole store state, its task list included, is as
\* before, the form stays open, and an error is recorded for every offending
\* field.
C6_InvalidSubmitNeverReachesStore ==
    [][ \A f \in FormSubmitInputs :
            ( OffendingFields(f) # { } /\ handleSubmit(f) ) =>
                /\ state' = state
                /\ isFormOpen'
                /\ OffendingFields(f) \subseteq DOMAIN errors' ]_vars

\* C6 witness: an edit of a stored task has just been rejected for ending
\* before it starts; the form is still open and holds the error.
C6_Witness ==
    /\ formShown
    /\ editingTask # NoTask
    /\ Len(state.tasks) >= 1
    /\ touched = AllFields
    /\ "endDate" \in DOMAIN errors
    /\ errors["endDate"] = "End date must be after start date"

----------------------------------------------------------------------------
(* SpecFilter: the pure functions of the filter pipeline, applied to       *)
(* inputs drawn from bounded sets.                                         *)

SearchChars == { "d", "E", " " }

\* every string over SearchChars of at most MaxSearchLen characters
SearchStrings == UNION { [ 1..n -> SearchChars ] : n \in 0..MaxSearchLen }

FilterTask1 == Task("task-1", "project-1", << "D", "e" >>, "blocked", "Bob Smith", 1, 2, Undefined)
FilterTask2 == Task("task-2", "project-1", << "e", " ", "d" >>, "completed", "Alice Johnson", 3, 4, Undefined)
FilterTask3 == Task("task-3", "project-1", << "d" >>, "blocked", "Alice Johnson", 2, 3, "task-1")

FilterTaskLists ==
    { << >>,
      << FilterTask1 >>,
      << FilterTask2, FilterTask1 >>,
      << FilterTask1, FilterTask2, FilterTask3 >>,
      << FilterTask3, FilterTask3, FilterTask2 >> }

FilterInputs ==
    [ status : { << >>, << "blocked" >>, << "completed", "blocked" >>, << "in-progress" >> },
      assignee : { << >>, << "Bob Smith" >>, << "Bob Smith", "Alice Johnson" >> },
      searchText : SearchStrings ]

DateRangeInputs ==
    { initialDateRange,
      [ start |-> SomeDate(2), end |-> SomeDate(3), preset |-> "custom" ],
      [ start |-> SomeDate(3), end |-> NoDate, preset |-> "custom" ],
      [ start |-> NoDate, end |-> SomeDate(1), preset |-> "custom" ],
      [ start |-> NoDate, end |-> NoDate, preset |-> "custom" ],
      [ start |-> SomeDate(4), end |-> SomeDate(4), preset |-> "all" ],
      [ start |-> SomeDate(2), end |-> SomeDate(2), preset |-> "this-month" ] }

FilterInit ==
    /\ fTasks \in FilterTaskLists
    /\ fFilters \in FilterInputs
    /\ fDateRange \in DateRangeInputs
    /\ fResult = << >>
    /\ fApplied = "none"
    /\ state = initialState
    /\ historyIdle
    /\ formClosed
    /\ timelineIdle
    /\ presetIdle
    /\ searchIdle
    /\ dateIdle
    /\ focusIdle

applyGetFilteredTasks ==
    /\ fResult' = getFilteredTasks(fTasks, fFilters, fDateRange)
    /\ fApplied' = "getFilteredTasks"
    /\ UNCHANGED << fTasks, fFilters, fDateRange, storeVars, formVars, timelineVars, presetVars, searchVars, dateVars, focusVars >>

applySearchByTitle ==
    /\ fResult' = searchByTitle(fTasks, fFilters.searchText)
    /\ fApplied' = "searchByTitle"
    /\ UNCHANGED << fTasks, fFilters, fDateRange, storeVars, formVars, timelineVars, presetVars, searchVars, dateVars, focusVars >>

applyFilterByDateRange ==
    /\ fResult' = filterByDateRange(fTasks, fDateRange)
    /\ fApplied' = "filterByDateRange"
    /\ UNCHANGED << fTasks, fFilters, fDateRange, storeVars, formVars, timelineVars, presetVars, searchVars, dateVars, focusVars >>

\* getFilteredTasks applied to its own result, filters and range unchanged
applyGetFilteredTasksTwice ==
    /\ fResult' = getFilteredTasks(getFilteredTasks(fTasks, fFilters, fDateRange), fFilters, fDateRange)
    /\ fApplied' = "getFilteredTasksTwice"
    /\ UNCHANGED << fTasks, fFilters, fDateRange, storeVars, formVars, timelineVars, presetVars, searchVars, dateVars, focusVars >>

applyFilterByStatus ==
    /\ fResult' = filterByStatus(fTasks, fFilters.status)
    /\ fApplied' = "filterByStatus"
    /\ UNCHANGED << fTasks, fFilters, fDateRange, storeVars, formVars, timelineVars, presetVars, searchVars, dateVars, focusVars >>

applyFilterByAssignee ==
    /\ fResult' = filterByAssignee(fTasks, fFilters.assignee)
    /\ fApplied' = "filterByAssignee"
    /\ UNCHANGED << fTasks, fFilters, fDateRange, storeVars, formVars, timelineVars, presetVars, searchVars, dateVars, focusVars >>

\* one of the four stage calls of getFilteredTasks
ApplyStage(stage, tasks, filters, dateRange) ==
    CASE stage = "status"    -> filterByStatus(tasks, filters.status)
      [] stage = "assignee"  -> filterByAssignee(tasks, filters.assignee)
      [] stage = "search"    -> searchByTitle(tasks, filters.searchText)
      [] stage = "dateRange" -> filterByDateRange(tasks, dateRange)

Stages == { "status", "assignee", "search", "dateRange" }

\* the orders in which the four stages can be applied
StageOrders == { order \in [ 1..4 -> Stages ] : \A i, j \in 1..4 : order[i] = order[j] => i = j }

\* the four stages applied in the given order
applyStagesInOrder(order) ==
    /\ LET first  == ApplyStage(order[1], fTasks, fFilters, fDateRange)
           second == ApplyStage(order[2], first, fFilters, fDateRange)
           third  == ApplyStage(order[3], second, fFilters, fDateRange)
       IN  fResult' = ApplyStage(order[4], third, fFilters, fDateRange)
    /\ fApplied' = "stagesInOrder"
    /\ UNCHANGED << fTasks, fFilters, fDateRange, storeVars, formVars, timelineVars, presetVars, searchVars, dateVars, focusVars >>

FilterNext ==
    \/ applyGetFilteredTasks
    \/ applySearchByTitle
    \/ applyFilterByDateRange
    \/ applyGetFilteredTasksTwice
    \/ applyFilterByStatus
    \/ applyFilterByAssignee
    \/ \E order \in StageOrders : applyStagesInOrder(order)

SpecFilter == FilterInit /\ [][FilterNext]_vars

----------------------------------------------------------------------------
(* Claims about the filter pipeline (SpecFilter).                          *)

\* result is the list of the elements of input at the indexes of kept, in
\* the order of input
ExactlyThose(result, input, kept) ==
    /\ Len(result) = Cardinality(kept)
    /\ \A i \in kept : result[Cardinality({ k \in kept : k <= i })] = input[i]

StatusPasses(task, filters) ==
    Len(filters.status) = 0 \/ \E i \in 1..Len(filters.status) : filters.status[i] = task.status

AssigneePasses(task, filters) ==
    Len(filters.assignee) = 0 \/ \E i \in 1..Len(filters.assignee) : filters.assignee[i] = task.assignee

Blank(str) == \A i \in 1..Len(str) : str[i] = " "

\* the title contains the search string, letter case aside
TitleContains(task, str) == includes(toLowerCase(task.title), toLowerCase(str))

SearchPasses(task, filters) ==
    Blank(filters.searchText) \/ TitleContains(task, filters.searchText)

RangeInactive(dateRange) ==
    dateRange.preset = "all" \/ (dateRange.start = NoDate /\ dateRange.end = NoDate)

Overlaps(task, dateRange) ==
    /\ dateRange.end # NoDate => task.startDate <= dateRange.end[1]
    /\ dateRange.start # NoDate => task.endDate >= dateRange.start[1]

DateRangePasses(task, dateRange) == RangeInactive(dateRange) \/ Overlaps(task, dateRange)

\* C9: getFilteredTasks(tasks, filters, dateRange) returns, in the order of
\* the input, exactly the tasks for which the status, assignee, search and
\* date-range predicates all hold (OR within the status set and within the
\* assignee set, AND across the four).
C9_FilteredTasksAreTheConjunction ==
    fApplied = "getFilteredTasks" =>
        ExactlyThose(fResult, fTasks,
            { i \in 1..Len(fTasks) :
                /\ StatusPasses(fTasks[i], fFilters)
                /\ AssigneePasses(fTasks[i], fFilters)
                /\ SearchPasses(fTasks[i], fFilters)
                /\ DateRangePasses(fTasks[i], fDateRange) })

\* C9 witness: getFilteredTasks has been applied with all four filters
\* active to a list of which it kept some tasks and dropped others.
C9_Witness ==
    /\ fApplied = "getFilteredTasks"
    /\ Len(fFilters.status) = 2
    /\ Len(fFilters.assignee) = 2
    /\ ~Blank(fFilters.searchText)
    /\ ~RangeInactive(fDateRange)
    /\ Len(fResult) > 0
    /\ Len(fResult) < Len(fTasks)

\* C10 as stated: a non-blank search string s keeps exactly the tasks whose
\* lower-cased title contains the lower-cased trim(s); a blank s keeps all.
C10_SearchMatchesTrimmedText ==
    fApplied = "searchByTitle" =>
        ExactlyThose(fResult, fTasks,
            { i \in 1..Len(fTasks) :
                \/ Blank(fFilters.searchText)
                \/ TitleContains(fTasks[i], trim(fFilters.searchText)) })

\* C10 as amended: a non-blank search string s keeps exactly the tasks whose
\* lower-cased title contains the lower-cased s as typed, its leading and
\* trailing spaces included; a blank or white-space-only s keeps all.
C10_SearchMatchesTextAsTyped ==
    fApplied = "searchByTitle" =>
        ExactlyThose(fResult, fTasks,
            { i \in 1..Len(fTasks) :
                \/ Blank(fFilters.searchText)
                \/ TitleContains(fTasks[i], fFilters.searchText) })

\* C10 witness: a search string with a capital and a trailing space has been
\* applied and kept one task of several.
C10_Witness ==
    /\ fApplied = "searchByTitle"
    /\ fFilters.searchText = << "E", " " >>
    /\ Len(fTasks) = 3
    /\ Len(fResult) = 1

\* C11: filterByDateRange keeps, in the order of the input, exactly the tasks
\* with startDate <= rangeEnd and endDate >= rangeStart, a comparison being
\* dropped when its bound is absent; with the preset 'all' (whatever the
\* bounds) or with both bounds absent it keeps every task.
C11_DateRangeKeepsOverlappingTasks ==
    fApplied = "filterByDateRange" =>
        /\ ExactlyThose(fResult, fTasks,
               { i \in 1..Len(fTasks) :
                   \/ fDateRange.preset = "all"
                   \/ /\ fDateRange.end # NoDate => fTasks[i].startDate <= fDateRange.end[1]
                      /\ fDateRange.start # NoDate => fTasks[i].endDate >= fDateRange.start[1] })
        /\ (fDateRange.preset = "all" \/ (fDateRange.start = NoDate /\ fDateRange.end = NoDate))
               => fResult = fTasks

\* C11 witness: a range with only a start bound has dropped the task that
\* ends before it and kept the others.
C11_Witness ==
    /\ fApplied = "filterByDateRange"
    /\ fDateRange.start # NoDate
    /\ fDateRange.end = NoDate
    /\ fDateRange.preset # "all"
    /\ Len(fTasks) = 3
    /\ Len(fResult) = 2
    /\ \E i \in 1..Len(fTasks) : fTasks[i].endDate < fDateRange.start[1]

\* C12: getFilteredTasks is idempotent: applied to its own result with the
\* same filters and date range it returns that result again.
C12_GetFilteredTasksIsIdempotent ==
    fApplied = "getFilteredTasksTwice" =>
        fResult = getFilteredTasks(fTasks, fFilters, fDateRange)

\* C12 witness: the second application was given a list the first had
\* shortened, with all four filters active.
C12_Witness ==
    /\ fApplied = "getFilteredTasksTwice"
    /\ Len(fFilters.status) > 0
    /\ Len(fFilters.assignee) > 0
    /\ ~Blank(fFilters.searchText)
    /\ ~RangeInactive(fDateRange)
    /\ Len(fResult) > 0
    /\ Len(fResult) < Len(fTasks)

\* C13: with an empty status selection filterByStatus returns its input, with
\* an empty assignee selection filterByAssignee returns its input, and with
\* both empty, a blank search string and the preset 'all' getFilteredTasks
\* returns its input: the same tasks in the same order.
C13_EmptySelectionsAreIdentity ==
    /\ (fApplied = "filterByStatus" /\ fFilters.status = << >>) => fResult = fTasks
    /\ (fApplied = "filterByAssignee" /\ fFilters.assignee = << >>) => fResult = fTasks
    /\ ( /\ fApplied = "getFilteredTasks"
         /\ fFilters.status = << >>
         /\ fFilters.assignee = << >>
         /\ Blank(fFilters.searchText)
         /\ fDateRange.preset = "all" ) => fResult = fTasks

\* C13 witness: getFilteredTasks has returned a three-task list unchanged
\* under empty selections, a search string of spaces and the preset 'all'
\* carrying bounds that would exclude tasks.
C13_Witness ==
    /\ fApplied = "getFilteredTasks"
    /\ fFilters.status = << >>
    /\ fFilters.assignee = << >>
    /\ fFilters.searchText = << " ", " " >>
    /\ fDateRange.preset = "all"
    /\ fDateRange.start # NoDate
    /\ Len(fTasks) = 3
    /\ fResult = fTasks

\* C14: the four stages applied in any order to the same list with the same
\* filters and date range give the list getFilteredTasks gives.
C14_StageOrderDoesNotMatter ==
    fApplied = "stagesInOrder" =>
        fResult = getFilteredTasks(fTasks, fFilters, fDateRange)

\* C14 witness: the stages have been applied, all four of them active, to a
\* list of which they kept some tasks and dropped others.
C14_Witness ==
    /\ fApplied = "stagesInOrder"
    /\ Len(fFilters.status) > 0
    /\ Len(fFilters.assignee) > 0
    /\ ~Blank(fFilters.searchText)
    /\ ~RangeInactive(fDateRange)
    /\ Len(fResult) > 0
    /\ Len(fResult) < Len(fTasks)

----------------------------------------------------------------------------
(* JavaScript numbers in the pixel arithmetic of the timeline.             *)
(*                                                                         *)
(* pixelsPerDay is 40 or 80 / 7, and every pixel value of the timeline is  *)
(* a whole number of days times pixelsPerDay: an IEEE-754 double that is   *)
(* zero or at least 8, hence a multiple of 2^-49.  A pixel value x is      *)
(* written as the whole number x * 2^49, held in three limbs of 24 bits,   *)
(* least significant first, and every operation rounds its exact result to *)
(* the 53 significant bits of a double, ties to even.                      *)

LimbBase == 2^24

\* the limbs brought back into 0..LimbBase-1, carries and borrows moved up
Carry(x) ==
    LET low  == x[1] % LimbBase
        mid  == x[2] + ((x[1] - low) \div LimbBase)
        midl == mid % LimbBase
    IN  << low, midl, x[3] + ((mid - midl) \div LimbBase) >>

\* the whole number n as a pixel value: n * 2^49 = 2 * n * LimbBase^2
FromInt(n) == << 0, 0, 2 * n >>

\* the number of bits of a limb
BitLength(n) == CHOOSE k \in 0..31 : n < 2^k /\ (k = 0 \/ n >= 2^(k - 1))

Bits(x) ==
    IF x[3] > 0 THEN 48 + BitLength(x[3])
    ELSE IF x[2] > 0 THEN 24 + BitLength(x[2])
    ELSE BitLength(x[1])

\* the double nearest to the exact value x, ties to even
RoundToDouble(x) ==
    LET excess == Bits(x) - 53
        unit   == 2^excess
        rest   == x[1] % unit
        odd    == ((x[1] - rest) \div unit) % 2 = 1
        up     == 2 * rest > unit \/ (2 * rest = unit /\ odd)
    IN  IF excess <= 0 THEN x
        ELSE Carry(<< x[1] - rest + (IF up THEN unit ELSE 0), x[2], x[3] >>)

\* n * x of JavaScript, n a whole number >= 0
Times(n, x) == RoundToDouble(Carry(<< n * x[1], n * x[2], n * x[3] >>))

\* x + y of JavaScript
Plus(x, y) == RoundToDouble(Carry(<< x[1] + y[1], x[2] + y[2], x[3] + y[3] >>))

\* x - y of JavaScript, for x >= y
Minus(x, y) == RoundToDouble(Carry(<< x[1] - y[1], x[2] - y[2], x[3] - y[3] >>))

\* x < y of JavaScript
LessThan(x, y) ==
    \/ x[3] < y[3]
    \/ x[3] = y[3] /\ x[2] < y[2]
    \/ x[3] = y[3] /\ x[2] = y[2] /\ x[1] < y[1]

\* x <= y of JavaScript
AtMost(x, y) == x = y \/ LessThan(x, y)

\* n / k of JavaScript for whole numbers whose quotient lies in 8..16: the
\* exact quotient of n * 2^49 by k has 53 bits, so the double is that
\* quotient rounded to the nearest whole number
Quotient(n, k) ==
    LET x    == FromInt(n)
        q3   == x[3] \div k
        r3   == x[3] % k
        q2   == (r3 * LimbBase + x[2]) \div k
        r2   == (r3 * LimbBase + x[2]) % k
        q1   == (r2 * LimbBase + x[1]) \div k
        r1   == (r2 * LimbBase + x[1]) % k
    IN  Carry(<< q1 + (IF 2 * r1 >= k THEN 1 ELSE 0), q2, q3 >>)

----------------------------------------------------------------------------
(* The Gantt timeline (lib/timelineUtils.ts, components/GanttTimeline.tsx, *)
(* components/TaskBar.tsx).                                                *)
(*                                                                         *)
(* Here the time value of a Date counts ticks of local time, TicksPerDay   *)
(* to the day, so that a Date has a calendar day and a time of day; a Date *)
(* at local midnight is a multiple of TicksPerDay.                         *)

TicksPerDay == 2

\* the last tick the clock reaches
MaxTick == 50

\* the calendar day of a Date: its getFullYear(), getMonth(), getDate()
CalendarDay(date) == date \div TicksPerDay

\* date.setDate(date.getDate() + days): same time of day, days later
setDate(date, days) == date + days * TicksPerDay

\* date.setHours(0, 0, 0, 0): local midnight of the same calendar day
setHours(date) == date - (date % TicksPerDay)

\* calculateTimelineRange padding only the start
calculateTimelineRange_WithoutEndPadding(tasks) ==
    LET allDates == { tasks[i].startDate : i \in 1..Len(tasks) } \cup
                    { tasks[i].endDate : i \in 1..Len(tasks) }
        minDate  == CHOOSE d \in allDates : \A e \in allDates : d <= e
        maxDate  == CHOOSE d \in allDates : \A e \in allDates : d >= e
    IN  IF Len(tasks) = 0 THEN << >>
        ELSE << [ start |-> setDate(minDate, -7), end |-> maxDate ] >>

\* calculateTimelineRange looking at the start dates only
calculateTimelineRange_StartDatesOnly(tasks) ==
    LET allDates == { tasks[i].startDate : i \in 1..Len(tasks) }
        minDate  == CHOOSE d \in allDates : \A e \in allDates : d <= e
        maxDate  == CHOOSE d \in allDates : \A e \in allDates : d >= e
    IN  IF Len(tasks) = 0 THEN << >>
        ELSE << [ start |-> setDate(minDate, -7), end |-> setDate(maxDate, 7) ] >>

\* null is << >>, a range is << [start, end] >>
calculateTimelineRange(tasks) ==
    LET allDates == { tasks[i].startDate : i \in 1..Len(tasks) } \cup
                    { tasks[i].endDate : i \in 1..Len(tasks) }
        minDate  == CHOOSE d \in allDates : \A e \in allDates : d <= e
        maxDate  == CHOOSE d \in allDates : \A e \in allDates : d >= e
    IN  IF Len(tasks) = 0 THEN << >>
        ELSE << [ start |-> setDate(minDate, -7), end |-> setDate(maxDate, 7) ] >>

\* Date.UTC of the calendar day of each date, then the floored quotient
differenceInDays(date1, date2) ==
    LET msPerDay == TicksPerDay
        utc1 == CalendarDay(date1) * msPerDay
        utc2 == CalendarDay(date2) * msPerDay
    IN  (utc1 - utc2) \div msPerDay

\* calculateTaskPosition not counting the day the task ends on
calculateTaskPosition_WithoutLastDay(task, timelineStart, pixelsPerDay) ==
    LET daysSinceStart == differenceInDays(task.startDate, timelineStart)
        taskDuration   == differenceInDays(task.endDate, task.startDate)
    IN  [ left  |-> Times(daysSinceStart, pixelsPerDay),
          width |-> Times(taskDuration, pixelsPerDay) ]

calculateTaskPosition(task, timelineStart, pixelsPerDay) ==
    LET daysSinceStart == differenceInDays(task.startDate, timelineStart)
        taskDuration   == differenceInDays(task.endDate, task.startDate) + 1
    IN  [ left  |-> Times(daysSinceStart, pixelsPerDay),
          width |-> Times(taskDuration, pixelsPerDay) ]

\* calculateTodayPosition; today is what its own new Date() reads
calculateTodayPosition(timelineStart, pixelsPerDay, today) ==
    LET daysSinceStart == differenceInDays(today, timelineStart)
    IN  Times(daysSinceStart, pixelsPerDay)

\* GanttTimeline: timelineView === 'day' ? 40 : 80 / 7
pixelsPerDayOf(timelineView) ==
    IF timelineView = "day" THEN FromInt(40) ELSE Quotient(80, 7)

\* the end of the timeline left where the padding put it
displayedEnd_NeverExtended(paddedEnd, today) == paddedEnd

\* GanttTimeline: if (endDate < today) { endDate = today; }
displayedEnd(paddedEnd, today) == IF paddedEnd < today THEN today ELSE paddedEnd

\* GanttTimeline: isTodayInRange
isTodayInRangeOf(today, startDate, endDate) == today >= startDate /\ today <= endDate

\* GanttTimeline, one render with the TaskBar of every task.  Its own
\* new Date() reads tlClock; later is the clock when the render ends, which
\* is what the new Date() of calculateTodayPosition reads.
GanttTimeline(later) ==
    LET timelineRange  == calculateTimelineRange(tlTasks)
        pixelsPerDay   == pixelsPerDayOf(tlView)
        startDate      == timelineRange[1].start
        today          == setHours(tlClock)
        endDate        == displayedEnd(timelineRange[1].end, today)
        totalDays      == differenceInDays(endDate, startDate) + 1
        totalWidth     == Times(totalDays, pixelsPerDay)
        isTodayInRange == isTodayInRangeOf(today, startDate, endDate)
        todayPosition  ==
            IF isTodayInRange
                THEN calculateTodayPosition(startDate, pixelsPerDay, later)
                ELSE FromInt(0)
        bars == [ i \in 1..Len(tlTasks) |->
                    calculateTaskPosition(tlTasks[i], startDate, pixelsPerDay) ]
    IN  /\ tlRender' =
               IF timelineRange = << >>
                   THEN << [ timelineRange |-> timelineRange, readAt |-> tlClock ] >>
                   ELSE << [ timelineRange |-> timelineRange, readAt |-> tlClock,
                             pixelsPerDay |-> pixelsPerDay, today |-> today,
                             startDate |-> startDate, endDate |-> endDate,
                             totalDays |-> totalDays, totalWidth |-> totalWidth,
                             isTodayInRange |-> isTodayInRange,
                             todayPosition |-> todayPosition, bars |-> bars ] >>
        /\ tlClock' = later
        /\ UNCHANGED << tlTasks, tlView, storeVars, formVars, filterVars, presetVars, searchVars, dateVars, focusVars >>

\* the displayed tasks: tasks the form lets through (endDate >= startDate)
TimelineTask1 == Task("task-1", "project-1", << "A" >>, "completed", "Alice Johnson", 20, 20, Undefined)
TimelineTask2 == Task("task-2", "project-1", << "B" >>, "in-progress", "Bob Smith", 24, 25, "task-1")
TimelineTask3 == Task("task-3", "project-1", << "D" >>, "not-started", "Bob Smith", 23, 29, Undefined)

TimelineTaskLists ==
    { << >>,
      << TimelineTask1 >>,
      << TimelineTask3 >>,
      << TimelineTask1, TimelineTask2 >>,
      << TimelineTask3, TimelineTask1 >>,
      << TimelineTask2, TimelineTask3, TimelineTask1 >> }

TimelineInit ==
    /\ tlTasks \in TimelineTaskLists
    /\ tlView \in TimelineViews
    /\ tlClock \in 0..MaxTick
    /\ tlRender = << >>
    /\ state = initialState
    /\ historyIdle
    /\ formClosed
    /\ filterIdle
    /\ presetIdle
    /\ searchIdle
    /\ dateIdle
    /\ focusIdle

TimelineNext ==
    \E later \in { tlClock, tlClock + 1 } : later <= MaxTick /\ GanttTimeline(later)

SpecTimeline == TimelineInit /\ [][TimelineNext]_vars

----------------------------------------------------------------------------
(* Claims about the timeline (SpecTimeline).                               *)

\* the last render drew a timeline (it had tasks to draw)
TimelineDrawn == tlRender # << >> /\ tlRender[1].timelineRange # << >>

TaskDates(tasks) ==
    { tasks[i].startDate : i \in 1..Len(tasks) } \cup { tasks[i].endDate : i \in 1..Len(tasks) }

Earliest(dates) == CHOOSE d \in dates : \A e \in dates : d <= e

Latest(dates) == CHOOSE d \in dates : \A e \in dates : d >= e

\* C15: for a non-empty task list calculateTimelineRange returns start = the
\* minimum over all start and end dates minus 7 days and end = the maximum
\* over all start and end dates plus 7 days, exactly; for the empty list it
\* returns null.
C15_TimelineRangeIsPaddedBySevenDays ==
    tlRender # << >> =>
        IF tlTasks = << >>
            THEN tlRender[1].timelineRange = << >>
            ELSE /\ tlRender[1].timelineRange # << >>
                 /\ tlRender[1].timelineRange[1].start =
                        Earliest(TaskDates(tlTasks)) - 7 * TicksPerDay
                 /\ tlRender[1].timelineRange[1].end =
                        Latest(TaskDates(tlTasks)) + 7 * TicksPerDay

\* C15 witness: a range has been computed for three tasks of which the one
\* that starts first is not the first of the list and the one that ends
\* last ends after it starts.
C15_Witness ==
    /\ TimelineDrawn
    /\ Len(tlTasks) = 3
    /\ tlTasks[1].startDate > Earliest(TaskDates(tlTasks))
    /\ \E i \in 1..3 : /\ tlTasks[i].endDate = Latest(TaskDates(tlTasks))
                        /\ tlTasks[i].endDate > tlTasks[i].startDate

\* C16 as stated: every bar of a drawn timeline whose tasks all have
\* endDate >= startDate has left >= 7 * pixelsPerDay and
\* left + width <= totalWidth - 7 * pixelsPerDay, where
\* totalWidth = (differenceInDays(end, start) + 1) * pixelsPerDay, in the
\* arithmetic of JavaScript numbers.
C16_BarsKeepSevenDaysOfPixelsFromTheEdges ==
    (TimelineDrawn /\ \A i \in 1..Len(tlTasks) : tlTasks[i].endDate >= tlTasks[i].startDate) =>
        LET r == tlRender[1]
            pad == Times(7, r.pixelsPerDay)
        IN  /\ r.totalWidth = Times(differenceInDays(r.endDate, r.startDate) + 1, r.pixelsPerDay)
            /\ \A i \in 1..Len(tlTasks) :
                   /\ AtMost(pad, r.bars[i].left)
                   /\ AtMost(Plus(r.bars[i].left, r.bars[i].width), Minus(r.totalWidth, pad))

\* C16 as amended: every bar of such a timeline lies at least 7 whole days
\* inside both edges, counted in days: the task starts at least 7 days after
\* the timeline start and its last day is at least 7 days before the last
\* day of the timeline; in pixels left >= 7 * pixelsPerDay in every view, and
\* left + width <= totalWidth - 7 * pixelsPerDay in the day view, where
\* pixelsPerDay is 40 and the products are exact.
C16_BarsKeepSevenDaysFromTheEdges ==
    (TimelineDrawn /\ \A i \in 1..Len(tlTasks) : tlTasks[i].endDate >= tlTasks[i].startDate) =>
        LET r == tlRender[1]
            pad == Times(7, r.pixelsPerDay)
        IN  /\ r.totalDays = differenceInDays(r.endDate, r.startDate) + 1
            /\ r.totalWidth = Times(r.totalDays, r.pixelsPerDay)
            /\ \A i \in 1..Len(tlTasks) :
                   /\ differenceInDays(tlTasks[i].startDate, r.startDate) >= 7
                   /\ differenceInDays(tlTasks[i].endDate, r.startDate) + 1 <= r.totalDays - 7
                   /\ AtMost(pad, r.bars[i].left)
                   /\ tlView = "day" =>
                          AtMost(Plus(r.bars[i].left, r.bars[i].width), Minus(r.totalWidth, pad))

\* C16 witness: in the week view a bar other than the first ends exactly 7
\* days before the last day of the timeline, and the first bar starts
\* exactly 7 days after its start.
C16_Witness ==
    /\ TimelineDrawn
    /\ tlView = "week"
    /\ Len(tlTasks) = 2
    /\ differenceInDays(tlTasks[1].startDate, tlRender[1].startDate) = 7
    /\ differenceInDays(tlTasks[2].endDate, tlRender[1].startDate) + 1 = tlRender[1].totalDays - 7

\* C17: calculateTaskPosition gives left = differenceInDays(task.startDate,
\* timelineStart) * pixelsPerDay and width = (differenceInDays(task.endDate,
\* task.startDate) + 1) * pixelsPerDay, pixelsPerDay being positive; hence a
\* task with endDate >= startDate, a single-day task included, has
\* width >= pixelsPerDay > 0.
C17_BarWidthCountsBothEndDays ==
    TimelineDrawn =>
        LET r == tlRender[1]
        IN  /\ LessThan(FromInt(0), r.pixelsPerDay)
            /\ \A i \in 1..Len(tlTasks) :
                   /\ r.bars[i].left =
                          Times(differenceInDays(tlTasks[i].startDate, r.startDate), r.pixelsPerDay)
                   /\ r.bars[i].width =
                          Times(differenceInDays(tlTasks[i].endDate, tlTasks[i].startDate) + 1,
                                r.pixelsPerDay)
                   /\ tlTasks[i].endDate >= tlTasks[i].startDate =>
                          AtMost(r.pixelsPerDay, r.bars[i].width)

\* C17 witness: outside the day view a task that starts and ends at the same
\* instant has a bar exactly pixelsPerDay wide, next to a longer bar.
C17_Witness ==
    /\ TimelineDrawn
    /\ tlView # "day"
    /\ \E i, j \in 1..Len(tlTasks) :
           /\ tlTasks[i].startDate = tlTasks[i].endDate
           /\ tlRender[1].bars[i].width = tlRender[1].pixelsPerDay
           /\ LessThan(tlRender[1].pixelsPerDay, tlRender[1].bars[j].width)

\* C18: when the padded end of calculateTimelineRange is earlier than today
\* (midnight) the displayed end is today, otherwise it is the padded end;
\* so the displayed end is never before today, and when every task date is
\* before today the today marker is drawn.
C18_TimelineReachesToday ==
    TimelineDrawn =>
        LET r == tlRender[1]
            paddedEnd == r.timelineRange[1].end
            today == r.readAt - (r.readAt % TicksPerDay)
        IN  /\ paddedEnd < today => r.endDate = today
            /\ paddedEnd >= today => r.endDate = paddedEnd
            /\ r.endDate >= today
            /\ (\A d \in TaskDates(tlTasks) : d < today) => r.isTodayInRange

\* C18 witness: the padded end lay before today, the timeline was extended
\* to today and the marker is drawn.
C18_Witness ==
    /\ TimelineDrawn
    /\ tlRender[1].timelineRange[1].end < tlRender[1].today
    /\ tlRender[1].endDate = tlRender[1].today
    /\ tlRender[1].endDate > tlRender[1].timelineRange[1].end + TicksPerDay
    /\ tlRender[1].isTodayInRange

\* C19: the today marker is drawn only when today (midnight) lies within
\* [timelineStart, timelineEnd]; when drawn its offset is
\* differenceInDays(today, timelineStart) * pixelsPerDay, which is >= 0 and
\* less than the total width; when today is before timelineStart no marker
\* is drawn.
C19_TodayMarkerInsideTheTimeline ==
    TimelineDrawn =>
        LET r == tlRender[1]
            today == r.readAt - (r.readAt % TicksPerDay)
        IN  /\ r.isTodayInRange => (today >= r.startDate /\ today <= r.endDate)
            /\ r.isTodayInRange =>
                   /\ r.todayPosition = Times(differenceInDays(today, r.startDate), r.pixelsPerDay)
                   /\ AtMost(FromInt(0), r.todayPosition)
                   /\ LessThan(r.todayPosition, r.totalWidth)
            /\ today < r.startDate => ~r.isTodayInRange

----------------------------------------------------------------------------
(* The date-range presets (lib/timelineUtils.ts, getThisMonth ..           *)
(* calculateDateRangeFromPreset) and the page's handleDateRangeChange.     *)
(*                                                                         *)
(* Here a Date is its local calendar date [year, month, date], month       *)
(* counted from 0 as getMonth() counts it.                                 *)

\* the last year the clock is read in
MaxYear == 2025

IsLeapYear(year) == year % 4 = 0 /\ (year % 100 # 0 \/ year % 400 = 0)

\* the number of days of a month, month in 0..11
DaysInMonth(year, month) ==
    CASE month = 1 -> IF IsLeapYear(year) THEN 29 ELSE 28
      [] month \in { 3, 5, 8, 10 } -> 30
      [] OTHER -> 31

\* new Date(year, monthIndex, day) for monthIndex >= 0 and day from 0 to
\* the length of the month: a monthIndex of 12 or more runs into the years
\* after, day 0 is the last day of the month before
NewDate(year, monthIndex, day) ==
    LET y == year + (monthIndex \div 12)
        m == monthIndex % 12
    IN  IF day >= 1 THEN [ year |-> y, month |-> m, date |-> day ]
        ELSE IF m = 0 THEN [ year |-> y - 1, month |-> 11, date |-> 31 ]
        ELSE [ year |-> y, month |-> m - 1, date |-> DaysInMonth(y, m - 1) ]

getThisMonth(today) ==
    [ start |-> NewDate(today.year, today.month, 1),
      end   |-> NewDate(today.year, today.month + 1, 0) ]

\* getNextMonth ending with the current month
getNextMonth_EndsThisMonth(today) ==
    [ start |-> NewDate(today.year, today.month + 1, 1),
      end   |-> NewDate(today.year, today.month + 1, 0) ]

getNextMonth(today) ==
    [ start |-> NewDate(today.year, today.month + 1, 1),
      end   |-> NewDate(today.year, today.month + 2, 0) ]

\* getThisQuarter ending the quarter with its second month
getThisQuarter_EndsAMonthEarly(today) ==
    LET quarterStartMonth == (today.month \div 3) * 3
    IN  [ start |-> NewDate(today.year, quarterStartMonth, 1),
          end   |-> NewDate(today.year, quarterStartMonth + 2, 0) ]

getThisQuarter(today) ==
    LET quarterStartMonth == (today.month \div 3) * 3
    IN  [ start |-> NewDate(today.year, quarterStartMonth, 1),
          end   |-> NewDate(today.year, quarterStartMonth + 3, 0) ]

getNextQuarter(today) ==
    LET quarterStartMonth == (today.month \div 3) * 3
        nextQuarterStartMonth == quarterStartMonth + 3
        year == IF nextQuarterStartMonth >= 12 THEN today.year + 1 ELSE today.year
        startMonth == IF nextQuarterStartMonth >= 12
                          THEN nextQuarterStartMonth - 12
                          ELSE nextQuarterStartMonth
    IN  [ start |-> NewDate(year, startMonth, 1),
          end   |-> NewDate(year, startMonth + 3, 0) ]

getThisYear(today) ==
    [ start |-> NewDate(today.year, 0, 1), end |-> NewDate(today.year, 11, 31) ]

getNextYear(today) ==
    [ start |-> NewDate(today.year + 1, 0, 1), end |-> NewDate(today.year + 1, 11, 31) ]

\* today is what the new Date() of the preset's function reads
calculateDateRangeFromPreset(preset, today) ==
    LET range ==
            CASE preset = "this-month"   -> getThisMonth(today)
              [] preset = "next-month"   -> getNextMonth(today)
              [] preset = "this-quarter" -> getThisQuarter(today)
              [] preset = "next-quarter" -> getNextQuarter(today)
              [] preset = "this-year"    -> getThisYear(today)
              [] preset = "next-year"    -> getNextYear(today)
    IN  IF preset = "all" \/ preset = "custom"
            THEN [ start |-> NoDate, end |-> NoDate, preset |-> preset ]
        ELSE IF preset \in { "this-month", "next-month", "this-quarter",
                             "next-quarter", "this-year", "next-year" }
            THEN [ start |-> SomeDate(range.start), end |-> SomeDate(range.end),
                   preset |-> preset ]
        ELSE [ start |-> NoDate, end |-> NoDate, preset |-> "all" ]

\* page.tsx handleDateRangeChange, with useTaskActions.setDateRange
handleDateRangeChange(preset) ==
    LET dateRange == calculateDateRangeFromPreset(preset, pNow[1])
    IN  /\ dispatch(TaskAction("SET_DATE_RANGE", dateRange))
        /\ recorded(TaskAction("SET_DATE_RANGE", dateRange))
        /\ UNCHANGED << formVars, filterVars, timelineVars, presetVars, searchVars, dateVars, focusVars >>

\* the dates the clock is read on
PresetClockDates ==
    LET days == [ year : 2024..MaxYear, month : 0..11, date : { 1, 15, 28, 31 } ]
    IN  { << today >> : today \in { d \in days : d.date <= DaysInMonth(d.year, d.month) } }

PresetInit ==
    /\ pNow \in PresetClockDates
    /\ state = initialState
    /\ historyIdle
    /\ formClosed
    /\ filterIdle
    /\ timelineIdle
    /\ searchIdle
    /\ dateIdle
    /\ focusIdle

PresetNext == \E preset \in DateRangePreset : handleDateRangeChange(preset)

SpecPreset == PresetInit /\ [][PresetNext]_vars

----------------------------------------------------------------------------
(* Claims about the date-range presets (SpecPreset).                       *)

\* the preset chosen last, once one has been chosen
PresetChosen(preset) ==
    /\ lastAction.type = "SET_DATE_RANGE"
    /\ state.dateRange.preset = preset

\* the last day of the third month of a quarter: 31 March, 30 June,
\* 30 September, 31 December
QuarterEnd(year, quarter) ==
    [ year |-> year, month |-> 3 * quarter + 2,
      date |-> IF quarter \in { 0, 3 } THEN 31 ELSE 30 ]

QuarterStart(year, quarter) == [ year |-> year, month |-> 3 * quarter, date |-> 1 ]

\* C20: for the current month m of the year y, 'this-quarter' runs from the
\* 1st of month 3*floor(m/3) of y to the last day of the month two later;
\* 'next-quarter' runs from the 1st of the first month of the following
\* quarter, of the year y+1 when the current quarter is the fourth, to the
\* last day of that quarter's third month.
C20_QuarterPresets ==
    LET y == pNow[1].year
        quarter == pNow[1].month \div 3
    IN  /\ PresetChosen("this-quarter") =>
               /\ state.dateRange.start = << QuarterStart(y, quarter) >>
               /\ state.dateRange.end = << QuarterEnd(y, quarter) >>
        /\ PresetChosen("next-quarter") =>
               IF quarter = 3
                   THEN /\ state.dateRange.start = << QuarterStart(y + 1, 0) >>
                        /\ state.dateRange.end = << QuarterEnd(y + 1, 0) >>
                   ELSE /\ state.dateRange.start = << QuarterStart(y, quarter + 1) >>
                        /\ state.dateRange.end = << QuarterEnd(y, quarter + 1) >>

\* C20 witness: on 1 November 2024 'next-quarter' has given 1 January 2025
\* to 31 March 2025.
C20_Witness ==
    /\ pNow = << [ year |-> 2024, month |-> 10, date |-> 1 ] >>
    /\ PresetChosen("next-quarter")
    /\ state.dateRange.start = << [ year |-> 2025, month |-> 0, date |-> 1 ] >>
    /\ state.dateRange.end = << [ year |-> 2025, month |-> 2, date |-> 31 ] >>

\* the lengths of the months of a year, January first
MonthLengths(year) ==
    << 31, IF year % 4 = 0 /\ (year % 100 # 0 \/ year % 400 = 0) THEN 29 ELSE 28,
       31, 30, 31, 30, 31, 31, 30, 31, 30, 31 >>

FirstOfMonth(year, month) == [ year |-> year, month |-> month, date |-> 1 ]

LastOfMonth(year, month) ==
    [ year |-> year, month |-> month, date |-> MonthLengths(year)[month + 1] ]

\* C21: 'this-month' gives the 1st and the last calendar day of the current
\* month; 'next-month' gives the 1st and the last calendar day of the month
\* after, which is January of the next year when the current month is
\* December; the last day is the 28th, 29th, 30th or 31st as the calendar
\* has it.
C21_MonthPresets ==
    LET y == pNow[1].year
        m == pNow[1].month
    IN  /\ PresetChosen("this-month") =>
               /\ state.dateRange.start = << FirstOfMonth(y, m) >>
               /\ state.dateRange.end = << LastOfMonth(y, m) >>
        /\ PresetChosen("next-month") =>
               IF m = 11
                   THEN /\ state.dateRange.start = << FirstOfMonth(y + 1, 0) >>
                        /\ state.dateRange.end = << LastOfMonth(y + 1, 0) >>
                   ELSE /\ state.dateRange.start = << FirstOfMonth(y, m + 1) >>
                        /\ state.dateRange.end = << LastOfMonth(y, m + 1) >>

\* C21 witness: on 31 January 2024 'next-month' has given 1 to 29 February
\* 2024.
C21_Witness ==
    /\ pNow = << [ year |-> 2024, month |-> 0, date |-> 31 ] >>
    /\ PresetChosen("next-month")
    /\ state.dateRange.start = << [ year |-> 2024, month |-> 1, date |-> 1 ] >>
    /\ state.dateRange.end = << [ year |-> 2024, month |-> 1, date |-> 29 ] >>


----------------------------------------------------------------------------
(* SpecSearch: FilterControls and its debounced search input.  Time is     *)
(* counted in milliseconds and advances in steps of TickMs; a timer may    *)
(* fire once DebounceMs have elapsed since its setTimeout.  React runs the *)
(* effects of a render caused by a user event before the next event or     *)
(* timer, so a handler, the render it causes and that render's effect      *)
(* are one step.                                                          *)

DebounceMs == 300

TickMs == 100

\* the number of setTimeout calls of one behaviour
MaxTimers == 4

\* the values the user leaves in the search input
TypedValues == { << >>, << "d" >>, << "d", "E" >> }

ToggledStatuses == { "completed", "blocked" }

ToggledAssignees == { "Alice Johnson" }

Event(name, value) == [ name |-> name, value |-> value, quiet |-> quiet ]

\* the page renders FilterControls only while a project is selected
filterControlsMounted == state.selectedProjectId # Null

\* clearTimeout that clears nothing
clearTimeout_KeepsTimer(pending, timer) == pending

\* the effect's cleanup: clearTimeout(timer)
clearTimeout(pending, timer) == { t \in pending : t.id # timer }

\* setTimeout(() => setSearch(searchInput), 300), as the timer it leaves
setTimeout(value) == [ id |-> nextTimerId, value |-> value, elapsed |-> 0 ]

\* the dependency array [searchInput, setSearch]: setSearch is a new
\* function in every render
depsChanged_WithSetSearch(previous, next) == TRUE

\* the dependency array [searchInput] of the debounce effect
depsChanged(previous, next) == previous # next

\* a render of the mounted FilterControls with the input value next, over
\* the timers in pending: the effect runs again when its dependencies changed
render(pending, next) ==
    IF depsChanged(searchInput, next)
        THEN /\ nextTimerId <= MaxTimers
             /\ timers' = clearTimeout(pending, effectTimer) \cup { setTimeout(next) }
             /\ effectTimer' = nextTimerId
             /\ nextTimerId' = nextTimerId + 1
        ELSE /\ timers' = pending
             /\ UNCHANGED << effectTimer, nextTimerId >>

\* ProjectSelector handleClick: the first selection mounts FilterControls,
\* whose input starts at the stored search text and whose effect runs
searchSelectProject(projectId) ==
    /\ dispatch(TaskAction("SELECT_PROJECT", projectId))
    /\ IF filterControlsMounted
           THEN /\ render(timers, searchInput)
                /\ UNCHANGED << searchInput, quiet, sinceChange >>
           ELSE /\ nextTimerId <= MaxTimers
                /\ searchInput' = state.filters.searchText
                /\ timers' = timers \cup { setTimeout(state.filters.searchText) }
                /\ effectTimer' = nextTimerId
                /\ nextTimerId' = nextTimerId + 1
                /\ quiet' = 0
                /\ sinceChange' = [ timer |-> 0, handler |-> 0 ]
    /\ lastEvent' = Event("select", << >>)
    /\ UNCHANGED << prevState, lastAction, formVars, filterVars, timelineVars, presetVars, dateVars, focusVars >>

\* the input's onChange: setSearchInput(e.target.value)
handleSearchChange(value) ==
    /\ filterControlsMounted
    /\ value # searchInput
    /\ searchInput' = value
    /\ render(timers, value)
    /\ quiet' = 0
    /\ sinceChange' = [ timer |-> 0, handler |-> 0 ]
    /\ lastEvent' = Event("change", value)
    /\ UNCHANGED << storeVars, formVars, filterVars, timelineVars, presetVars, dateVars, focusVars >>

toggled(selected, value) ==
    LET Other(x) == x # value
    IN  IF Includes(selected, value) THEN SelectSeq(selected, Other) ELSE Append(selected, value)

handleStatusToggle(status) ==
    /\ filterControlsMounted
    /\ dispatch(TaskAction("SET_FILTER", [ status |-> toggled(state.filters.status, status) ]))
    /\ render(timers, searchInput)
    /\ lastEvent' = Event("status", << >>)
    /\ UNCHANGED << prevState, lastAction, searchInput, quiet, sinceChange, formVars, filterVars, timelineVars, presetVars, dateVars, focusVars >>

handleAssigneeToggle(assignee) ==
    /\ filterControlsMounted
    /\ dispatch(TaskAction("SET_FILTER", [ assignee |-> toggled(state.filters.assignee, assignee) ]))
    /\ render(timers, searchInput)
    /\ lastEvent' = Event("assignee", << >>)
    /\ UNCHANGED << prevState, lastAction, searchInput, quiet, sinceChange, formVars, filterVars, timelineVars, presetVars, dateVars, focusVars >>

hasActiveFilters ==
    \/ Len(state.filters.status) > 0
    \/ Len(state.filters.assignee) > 0
    \/ Len(state.filters.searchText) > 0

\* handleClearFilters that leaves the input as it is
handleClearFilters_KeepsInput(cleared) == searchInput

\* handleClearFilters: setSearchInput('')
handleClearFilters_Input(cleared) == cleared

\* the Clear button, shown only while a stored filter is active: both
\* dispatches and the input's reset are one render
handleClearFilters ==
    LET cleared == taskReducer(taskReducer(state,
                        TaskAction("SET_FILTER", [ status |-> << >>, assignee |-> << >> ])),
                        TaskAction("SET_SEARCH", << >>))
        input == handleClearFilters_Input(<< >>)
    IN  /\ filterControlsMounted
        /\ hasActiveFilters
        /\ state' = cleared
        /\ searchInput' = input
        /\ render(timers, input)
        /\ quiet' = IF input # searchInput THEN 0 ELSE quiet
        /\ sinceChange' =
               IF input # searchInput
                   THEN [ timer |-> 0, handler |-> 1 ]
                   ELSE [ sinceChange EXCEPT !.handler = 1 ]
        /\ lastEvent' = Event("clear", searchInput)
        /\ UNCHANGED << prevState, lastAction, formVars, filterVars, timelineVars, presetVars, dateVars, focusVars >>

Least(a, b) == IF a <= b THEN a ELSE b

\* TickMs milliseconds pass
searchTick ==
    /\ quiet < DebounceMs \/ \E t \in timers : t.elapsed < DebounceMs
    /\ timers' = { [ t EXCEPT !.elapsed = Least(t.elapsed + TickMs, DebounceMs) ] : t \in timers }
    /\ quiet' = Least(quiet + TickMs, DebounceMs)
    /\ lastEvent' = Event("tick", << >>)
    /\ UNCHANGED << storeVars, searchInput, effectTimer, nextTimerId, sinceChange, formVars, filterVars, timelineVars, presetVars, dateVars, focusVars >>

\* a timer's callback: setSearch(searchInput) with the value of its render,
\* then the render that the dispatch causes
timerFires(timer) ==
    /\ timer \in timers
    /\ timer.elapsed >= DebounceMs
    /\ dispatch(TaskAction("SET_SEARCH", timer.value))
    /\ render(timers \ { timer }, searchInput)
    /\ sinceChange' = [ sinceChange EXCEPT !.timer = Least(sinceChange.timer + 1, 2) ]
    /\ lastEvent' = Event("timer", timer.value)
    /\ UNCHANGED << prevState, lastAction, searchInput, quiet, formVars, filterVars, timelineVars, presetVars, dateVars, focusVars >>

SearchInit ==
    /\ state = initialState
    /\ historyIdle
    /\ formClosed
    /\ filterIdle
    /\ timelineIdle
    /\ presetIdle
    /\ searchIdle
    /\ dateIdle
    /\ focusIdle

SearchNext ==
    \/ \E projectId \in ProjectIds : searchSelectProject(projectId)
    \/ \E value \in TypedValues : handleSearchChange(value)
    \/ \E status \in ToggledStatuses : handleStatusToggle(status)
    \/ \E assignee \in ToggledAssignees : handleAssigneeToggle(assignee)
    \/ handleClearFilters
    \/ searchTick
    \/ \E timer \in timers : timerFires(timer)

SpecSearch == SearchInit /\ [][SearchNext]_vars

\* the browser runs a due timer, and time passes
SpecSearchFair ==
    /\ SpecSearch
    /\ WF_vars(searchTick)
    /\ WF_vars(\E timer \in timers : timerFires(timer))

----------------------------------------------------------------------------
(* The debounced search: claims C22, C23 and C28.                          *)

\* C22: at most one debounce timer is pending; a change of the input leaves
\* only the timer it has just set, so every earlier pending update is
\* cancelled; and a timer dispatches SET_SEARCH only after DebounceMs
\* without a change of the input, with the input's current value
C22_DebounceSafety ==
    /\ Cardinality(timers) <= 1
    /\ lastEvent.name = "change" => \A t \in timers : t.elapsed = 0 /\ t.value = searchInput
    /\ lastEvent.name = "timer" =>
           /\ lastEvent.quiet >= DebounceMs
           /\ lastEvent.value = searchInput
           /\ state.filters.searchText = searchInput

\* the input changed a second time within DebounceMs of its first change,
\* while the first change's timer was pending
C22_Witness ==
    /\ lastEvent.name = "change"
    /\ lastEvent.quiet < DebounceMs
    /\ lastEvent.value = << "d", "E" >>
    /\ nextTimerId >= 4
    /\ Cardinality(timers) = 1


\* C23: once the input stops changing, the store's search text becomes the
\* input's last value and stays so; the debounce timer dispatches
\* SET_SEARCH for that value once and no more, for the render caused by
\* the dispatch sets no new timer
C23_DebounceSettles ==
    /\ [](sinceChange.timer <= 1)
    /\ [](lastEvent.name = "timer" => timers = { })
    /\ <>[](filterControlsMounted =>
               /\ timers = { }
               /\ state.filters.searchText = searchInput
               /\ sinceChange.timer = 1)

\* the typed value has reached the store through its one timer, and a later
\* render of FilterControls has left no timer pending
C23_Witness ==
    /\ lastEvent.name = "status"
    /\ searchInput = << "d", "E" >>
    /\ state.filters.searchText = << "d", "E" >>
    /\ sinceChange.timer = 1
    /\ quiet >= DebounceMs
    /\ timers = { }


\* C28: Clear Filters leaves the stored status, assignee and search text
\* empty, whatever timer was pending; and from then until the input next
\* changes the input, every pending timer's value and the stored search
\* text stay empty, so no timer stores a non-empty search text
C28_ClearFiltersWins ==
    /\ lastEvent.name = "clear" =>
           /\ state.filters.status = << >>
           /\ state.filters.assignee = << >>
           /\ state.filters.searchText = << >>
    /\ sinceChange.handler = 1 =>
           /\ searchInput = << >>
           /\ \A t \in timers : t.value = << >>
           /\ state.filters.searchText = << >>

\* Clear Filters was clicked less than DebounceMs after "dE" was typed,
\* that is, while the timer of "dE" was pending
C28_Witness ==
    /\ lastEvent.name = "clear"
    /\ lastEvent.value = << "d", "E" >>
    /\ lastEvent.quiet < DebounceMs
    /\ timers # { }


----------------------------------------------------------------------------
(* addTask (SpecStore): claim C26.                                         *)

\* C26: after addTask(t) the task list is the list of before, every task
\* unchanged and in its place, followed by t as the last element, whether
\* or not a stored task already carries t.id
C26_AddTaskAppends ==
    lastAction.type = "ADD_TASK" =>
        /\ Len(state.tasks) = Len(prevState.tasks) + 1
        /\ \A i \in 1..Len(prevState.tasks) : state.tasks[i] = prevState.tasks[i]
        /\ state.tasks[Len(state.tasks)] = lastAction.payload

\* a task was added whose id a stored task already carried, and whose
\* dependency is itself: the list now holds the id twice
C26_Witness ==
    /\ lastAction.type = "ADD_TASK"
    /\ lastAction.payload = StoreTask("task-2", << "B" >>, "task-2")
    /\ \E i \in 1..Len(prevState.tasks) : prevState.tasks[i].id = "task-2"
    /\ Cardinality({ i \in 1..Len(state.tasks) : state.tasks[i].id = "task-2" }) = 2


----------------------------------------------------------------------------
(* SpecCommands: the store driven by all eight commands of useTaskActions, *)
(* from the initial state and from a state with every field set.           *)

\* the longest task list of SpecCommands
MaxCommandTasks == 2

CommandTasks == { StoreTask("task-1", << "A" >>, Undefined),
                  StoreTask("task-1", << "B" >>, "task-1") }

\* the Partial<Filters> payloads of setFilter
FilterPayloads ==
    { [ status |-> status ] : status \in { << >>, << "completed" >> } }
      \cup { [ assignee |-> assignee ] : assignee \in { << >>, << "Alice Johnson" >> } }
      \cup { [ status |-> << >>, assignee |-> << >> ],
             [ searchText |-> << "d" >> ] }

SearchPayloads == { << >>, << "d" >> }

DateRangePayloads ==
    { initialDateRange,
      [ start |-> SomeDate(1), end |-> SomeDate(2), preset |-> "custom" ],
      [ start |-> SomeDate(2), end |-> SomeDate(3), preset |-> "this-month" ] }

selectProjectCommand(projectId) ==
    /\ dispatch(TaskAction("SELECT_PROJECT", projectId))
    /\ recorded(TaskAction("SELECT_PROJECT", projectId))
    /\ UNCHANGED << formVars, filterVars, timelineVars, presetVars, searchVars, dateVars, focusVars >>

setFilter(filters) ==
    /\ dispatch(TaskAction("SET_FILTER", filters))
    /\ recorded(TaskAction("SET_FILTER", filters))
    /\ UNCHANGED << formVars, filterVars, timelineVars, presetVars, searchVars, dateVars, focusVars >>

setSearch(searchText) ==
    /\ dispatch(TaskAction("SET_SEARCH", searchText))
    /\ recorded(TaskAction("SET_SEARCH", searchText))
    /\ UNCHANGED << formVars, filterVars, timelineVars, presetVars, searchVars, dateVars, focusVars >>

setTimelineView(view) ==
    /\ dispatch(TaskAction("SET_TIMELINE_VIEW", view))
    /\ recorded(TaskAction("SET_TIMELINE_VIEW", view))
    /\ UNCHANGED << formVars, filterVars, timelineVars, presetVars, searchVars, dateVars, focusVars >>

setDateRange(dateRange) ==
    /\ dispatch(TaskAction("SET_DATE_RANGE", dateRange))
    /\ recorded(TaskAction("SET_DATE_RANGE", dateRange))
    /\ UNCHANGED << formVars, filterVars, timelineVars, presetVars, searchVars, dateVars, focusVars >>

CommandsInit ==
    /\ state \in { initialState, busyState }
    /\ historyIdle
    /\ formClosed
    /\ filterIdle
    /\ timelineIdle
    /\ presetIdle
    /\ searchIdle
    /\ dateIdle
    /\ focusIdle

CommandsNext ==
    \/ \E projectId \in ProjectIds \cup { Null } : selectProjectCommand(projectId)
    \/ \E task \in CommandTasks : Len(state.tasks) < MaxCommandTasks /\ addTask(task)
    \/ \E task \in CommandTasks : updateTask(task)
    \/ \E taskId \in { "task-1" } : deleteTask(taskId)
    \/ \E filters \in FilterPayloads : setFilter(filters)
    \/ \E searchText \in SearchPayloads : setSearch(searchText)
    \/ \E view \in TimelineViews : setTimelineView(view)
    \/ \E dateRange \in DateRangePayloads : setDateRange(dateRange)

SpecCommands == CommandsInit /\ [][CommandsNext]_vars

----------------------------------------------------------------------------
(* The frame of the commands: claim C24.                                   *)

\* the fields of the TaskState a command of the given type may change
OwnFields(type) ==
    CASE type = "SELECT_PROJECT"    -> { "selectedProjectId" }
      [] type = "SET_TIMELINE_VIEW" -> { "timelineView" }
      [] type = "SET_DATE_RANGE"    -> { "dateRange" }
      [] type = "SET_SEARCH"        -> { "filters" }
      [] type = "SET_FILTER"        -> { "filters" }
      [] type \in { "ADD_TASK", "UPDATE_TASK", "DELETE_TASK" } -> { "tasks" }
      [] OTHER                      -> { }

\* the filter fields a command may change
OwnFilters(action) ==
    CASE action.type = "SET_SEARCH" -> { "searchText" }
      [] action.type = "SET_FILTER" -> DOMAIN action.payload
      [] OTHER                      -> { }

\* C24: every command leaves every field of the state but its own as it
\* was: selectProject changes selectedProjectId only, setTimelineView
\* timelineView only, setDateRange dateRange only, setSearch
\* filters.searchText only, setFilter the filter fields of its payload only,
\* addTask, updateTask and deleteTask tasks only; and the changed field of
\* the five setters is the payload.  No command changes projects.
C24_CommandsChangeTheirOwnField ==
    /\ \A f \in DOMAIN state \ OwnFields(lastAction.type) : state[f] = prevState[f]
    /\ \A f \in DOMAIN state.filters \ OwnFilters(lastAction) :
           state.filters[f] = prevState.filters[f]
    /\ state.projects = prevState.projects
    /\ lastAction.type = "SELECT_PROJECT" => state.selectedProjectId = lastAction.payload
    /\ lastAction.type = "SET_TIMELINE_VIEW" => state.timelineView = lastAction.payload
    /\ lastAction.type = "SET_DATE_RANGE" => state.dateRange = lastAction.payload
    /\ lastAction.type = "SET_SEARCH" => state.filters.searchText = lastAction.payload
    /\ lastAction.type = "SET_FILTER" =>
           \A f \in DOMAIN lastAction.payload : state.filters[f] = lastAction.payload[f]

\* setFilter({status}) on a state whose assignee filter and search text are
\* set, which it has left as they were
C24_Witness ==
    /\ lastAction.type = "SET_FILTER"
    /\ DOMAIN lastAction.payload = { "status" }
    /\ state.filters.status = << "completed" >>
    /\ state.filters.assignee = << "Bob Smith" >>
    /\ state.filters.searchText = << "d" >>
    /\ state.tasks # << >>


----------------------------------------------------------------------------
(* SpecView: what the page shows.  The store holds tasks of both projects; *)
(* the user selects projects, sets filters and opens and closes the form,  *)
(* and selectProject(null) is dispatched as a command.                     *)

ViewTasks ==
    << Task("task-1", "project-1", << "A" >>, "not-started", "Alice Johnson", 1, 2, Undefined),
       Task("task-2", "project-2", << "d" >>, "completed", "Alice Johnson", 1, 2, Undefined),
       Task("task-3", "project-1", << "d" >>, "completed", "Bob Smith", 2, 3, "task-1"),
       Task("task-4", "project-2", << "A" >>, "blocked", "Bob Smith", 3, 3, Undefined) >>

\* JavaScript truthiness of a string | null
truthy(value) == value \notin { Null, Undefined, "" }

\* page.tsx: {state.selectedProjectId && (<section> ZoomControl,
\* FilterControls, DateRangeFilter, GanttTimeline </section>)}
taskManagementShown == truthy(state.selectedProjectId)

\* page.tsx: <GanttTimeline tasks={filteredTasks} />
timelineTasks == useFilteredTasks

ViewInit ==
    /\ state = [ initialState EXCEPT !.tasks = ViewTasks ]
    /\ historyIdle
    /\ formClosed
    /\ filterIdle
    /\ timelineIdle
    /\ presetIdle
    /\ searchIdle
    /\ dateIdle
    /\ focusIdle

ViewNext ==
    \/ \E projectId \in ProjectIds \cup { Null } : selectProjectCommand(projectId)
    \/ \E filters \in FilterPayloads : taskManagementShown /\ setFilter(filters)
    \/ \E searchText \in SearchPayloads : taskManagementShown /\ setSearch(searchText)
    \/ \E dateRange \in DateRangePayloads : taskManagementShown /\ setDateRange(dateRange)
    \/ handleCreateTask
    \/ handleFormCancel

SpecView == ViewInit /\ [][ViewNext]_vars

----------------------------------------------------------------------------
(* The displayed tasks: claim C25.                                         *)

\* the task, alone, passes the filters
PassesFilters(task) ==
    getFilteredTasks(<< task >>, state.filters, state.dateRange) = << task >>

DisplayableTask(task) ==
    task.projectId = state.selectedProjectId /\ PassesFilters(task)

\* C25: the form is shown only while a project is selected; and while the
\* task-management view is shown a project is selected and the timeline
\* gets exactly the stored tasks of that project that pass the filters,
\* in their stored order, so no task of another project
C25_OnlyTheSelectedProjectIsShown ==
    /\ formShown => state.selectedProjectId # Null
    /\ taskManagementShown =>
           /\ state.selectedProjectId # Null
           /\ timelineTasks = SelectSeq(state.tasks, DisplayableTask)
           /\ \A i \in 1..Len(timelineTasks) :
                  timelineTasks[i].projectId = state.selectedProjectId

\* project-1 is shown under the status filter 'completed': its completed
\* task is displayed and the completed task of project-2 is not
C25_Witness ==
    /\ taskManagementShown
    /\ state.selectedProjectId = "project-1"
    /\ state.filters.status = << "completed" >>
    /\ timelineTasks = << ViewTasks[3] >>
    /\ PassesFilters(ViewTasks[2])


----------------------------------------------------------------------------
(* SpecDateRange: DateRangeFilter on the page.  The user chooses presets,  *)
(* and under the preset 'custom' picks dates in the two calendars and      *)
(* presses Apply.  Calendar dates are days at local midnight.              *)

\* Date < Date: the dates compare by their time values
DateBefore(a, b) ==
    \/ a.year < b.year
    \/ a.year = b.year /\ a.month < b.month
    \/ a.year = b.year /\ a.month = b.month /\ a.date < b.date

\* the days the user picks in the calendars
PickedDates ==
    { [ year |-> 2024, month |-> 0, date |-> 31 ],
      [ year |-> 2024, month |-> 1, date |-> 1 ],
      [ year |-> 2024, month |-> 1, date |-> 29 ] }

DateRangeClockDates ==
    { << [ year |-> 2024, month |-> 0, date |-> 31 ] >>,
      << [ year |-> 2024, month |-> 11, date |-> 15 ] >> }

\* the pickers and Apply are rendered under currentPreset === 'custom'
customPickersShown == state.dateRange.preset = "custom"

\* DateRangeFilter handlePresetChange: both branches call onPresetChange
handlePresetChange(value) ==
    /\ taskManagementShown
    /\ handleDateRangeChange(value)

\* Calendar onSelect (mode single): the picked day, or nothing when the
\* selected day is picked again
setStartDate(date) ==
    /\ taskManagementShown
    /\ customPickersShown
    /\ pickedStart' = IF pickedStart = << date >> THEN << >> ELSE << date >>
    /\ UNCHANGED << pickedEnd, toast, storeVars, formVars, filterVars, timelineVars, presetVars, searchVars, focusVars >>

\* the end calendar disables the days before the picked start date
setEndDate(date) ==
    /\ taskManagementShown
    /\ customPickersShown
    /\ pickedStart # << >> => ~DateBefore(date, pickedStart[1])
    /\ pickedEnd' = IF pickedEnd = << date >> THEN << >> ELSE << date >>
    /\ UNCHANGED << pickedStart, toast, storeVars, formVars, filterVars, timelineVars, presetVars, searchVars, focusVars >>

\* page.tsx handleCustomDateChange
handleCustomDateChange(startDate, endDate) ==
    LET dateRange == [ start |-> SomeDate(startDate), end |-> SomeDate(endDate),
                       preset |-> "custom" ]
    IN  /\ dispatch(TaskAction("SET_DATE_RANGE", dateRange))
        /\ recorded(TaskAction("SET_DATE_RANGE", dateRange))

\* the test of Apply with endDate < startDate
endNotAfterStart_AllowsEqual(startDate, endDate) == DateBefore(endDate, startDate)

\* endDate <= startDate
endNotAfterStart(startDate, endDate) == ~DateBefore(startDate, endDate)

handleApplyCustomDates ==
    /\ taskManagementShown
    /\ customPickersShown
    /\ IF pickedStart = << >> \/ pickedEnd = << >>
           THEN /\ toast' = "Please select both start and end dates"
                /\ UNCHANGED storeVars
       ELSE IF endNotAfterStart(pickedStart[1], pickedEnd[1])
           THEN /\ toast' = "End date must be greater than start date"
                /\ UNCHANGED storeVars
       ELSE /\ handleCustomDateChange(pickedStart[1], pickedEnd[1])
            /\ toast' = "Custom date range applied successfully"
    /\ UNCHANGED << pickedStart, pickedEnd, formVars, filterVars, timelineVars, presetVars, searchVars, focusVars >>

DateRangeInit ==
    /\ pNow \in DateRangeClockDates
    /\ state = [ initialState EXCEPT !.selectedProjectId = "project-1" ]
    /\ historyIdle
    /\ formClosed
    /\ filterIdle
    /\ timelineIdle
    /\ searchIdle
    /\ dateIdle
    /\ focusIdle

DateRangeNext ==
    \/ \E value \in DateRangePreset : handlePresetChange(value)
    \/ \E date \in PickedDates : setStartDate(date)
    \/ \E date \in PickedDates : setEndDate(date)
    \/ handleApplyCustomDates

SpecDateRange == DateRangeInit /\ [][DateRangeNext]_vars

----------------------------------------------------------------------------
(* The stored date range: claim C27.                                       *)

ErrorToasts == { "Please select both start and end dates",
                 "End date must be greater than start date" }

NamedPresets == DateRangePreset \ { "all", "custom" }

DateRangeConsistent(dateRange) ==
    /\ dateRange.preset = "all" =>
           dateRange.start = NoDate /\ dateRange.end = NoDate
    /\ dateRange.preset \in NamedPresets =>
           /\ dateRange.start # NoDate
           /\ dateRange.end # NoDate
           /\ ~DateBefore(dateRange.end[1], dateRange.start[1])
    /\ dateRange.preset = "custom" =>
           \/ dateRange.start = NoDate /\ dateRange.end = NoDate
           \/ /\ dateRange.start # NoDate
              /\ dateRange.end # NoDate
              /\ DateBefore(dateRange.start[1], dateRange.end[1])

\* C27: the stored date range always fits its preset: 'all' has no bound,
\* a named preset has both bounds and start <= end, 'custom' has no bound
\* or both with start before end; and an Apply that ends in an error toast
\* (a date missing, or end <= start) leaves the store as it was
C27_DateRangeFitsItsPreset ==
    /\ []DateRangeConsistent(state.dateRange)
    /\ [][toast' # toast /\ toast' \in ErrorToasts => state' = state]_vars

\* Apply was pressed with the same day in both calendars and was refused;
\* the stored range is still that of the preset 'custom', without bounds
C27_Witness ==
    /\ toast = "End date must be greater than start date"
    /\ pickedStart # << >>
    /\ pickedStart = pickedEnd
    /\ state.dateRange = [ start |-> NoDate, end |-> NoDate, preset |-> "custom" ]


----------------------------------------------------------------------------
(* SpecFocus: keyboard navigation in GanttTimeline.  The component stays   *)
(* mounted while a project is selected; its tasks prop follows the store   *)
(* (filters, the selected project, deletions) and focusedTaskIndex is its  *)
(* own state, written by handleKeyDown only.                               *)

Keys == { "ArrowDown", "ArrowUp", "Enter", "Home", "End" }

\* page.tsx onTaskSelect: the first task of the project with the id
onTaskSelect(taskId) ==
    LET found == { j \in 1..Len(projectTasks) : projectTasks[j].id = taskId }
        first == CHOOSE j \in found : \A k \in found : j <= k
    IN  IF found # { }
            THEN /\ editingTask' = << projectTasks[first] >>
                 /\ isFormOpen' = TRUE
            ELSE UNCHANGED << editingTask, isFormOpen >>

\* GanttTimeline handleKeyDown; tasks[i] of the source is tasks[i + 1] here
handleKeyDown(key) ==
    LET tasks == timelineTasks
    IN  /\ taskManagementShown
        /\ ~isFormOpen
        /\ lastKey' = key
        /\ IF Len(tasks) = 0
               THEN UNCHANGED << focusedTaskIndex, editingTask, isFormOpen >>
           ELSE CASE key = "ArrowDown" ->
                       /\ focusedTaskIndex' =
                              IF focusedTaskIndex < Len(tasks) - 1
                                  THEN focusedTaskIndex + 1 ELSE focusedTaskIndex
                       /\ UNCHANGED << editingTask, isFormOpen >>
                  [] key = "ArrowUp" ->
                       /\ focusedTaskIndex' =
                              IF focusedTaskIndex > 0
                                  THEN focusedTaskIndex - 1 ELSE focusedTaskIndex
                       /\ UNCHANGED << editingTask, isFormOpen >>
                  [] key = "Enter" ->
                       /\ IF focusedTaskIndex >= 0 /\ focusedTaskIndex < Len(tasks)
                              THEN onTaskSelect(tasks[focusedTaskIndex + 1].id)
                              ELSE UNCHANGED << editingTask, isFormOpen >>
                       /\ UNCHANGED focusedTaskIndex
                  [] key = "Home" ->
                       /\ focusedTaskIndex' = 0
                       /\ UNCHANGED << editingTask, isFormOpen >>
                  [] key = "End" ->
                       /\ focusedTaskIndex' = Len(tasks) - 1
                       /\ UNCHANGED << editingTask, isFormOpen >>
        /\ UNCHANGED << errors, touched, now, storeVars, filterVars, timelineVars, presetVars, searchVars, dateVars >>

FocusInit ==
    /\ state = [ initialState EXCEPT !.tasks = ViewTasks, !.selectedProjectId = "project-1" ]
    /\ historyIdle
    /\ formClosed
    /\ filterIdle
    /\ timelineIdle
    /\ presetIdle
    /\ searchIdle
    /\ dateIdle
    /\ focusIdle

FocusNext ==
    \/ \E key \in Keys : handleKeyDown(key)
    \/ \E projectId \in ProjectIds : selectProject(projectId)
    \/ \E status \in { << >>, << "completed" >> } : ~isFormOpen /\ setFilter([ status |-> status ])
    \/ handleDelete
    \/ handleFormCancel

SpecFocus == FocusInit /\ [][FocusNext]_vars

----------------------------------------------------------------------------
(* Keyboard focus: claim C29.                                              *)

\* the form holds the task Enter has opened: the displayed task at
\* focusedTaskIndex
EnterOpensTheFocusedTask ==
    lastKey = "Enter" /\ formShown =>
        /\ focusedTaskIndex \in 0..(Len(timelineTasks) - 1)
        /\ editingTask = << timelineTasks[focusedTaskIndex + 1] >>

\* C29: while the timeline is shown, focusedTaskIndex is -1 or an index
\* 0..tasks.length-1 of the list now displayed; and the task Enter has put
\* in the form is the displayed task at focusedTaskIndex
C29_FocusIsAnIndexOfTheDisplayedList ==
    taskManagementShown =>
        /\ focusedTaskIndex = -1 \/ focusedTaskIndex \in 0..(Len(timelineTasks) - 1)
        /\ EnterOpensTheFocusedTask


----------------------------------------------------------------------------
(* The week header of the timeline (TimelineHeader, week view), as it is   *)
(* laid out for the render in tlRender.  Calendar day 0 is taken to be a   *)
(* Sunday.                                                                 *)

\* Date.prototype.getDay: 0 is Sunday
getDay(date) == CalendarDay(date) % 7

\* the Sunday on or before the date, at the date's time of day
getWeekStart(date) == setDate(date, 0 - getDay(date))

generateWeekRange(start, end) ==
    LET first == getWeekStart(start)
        count == IF first > end THEN 0 ELSE (end - first) \div (7 * TicksPerDay) + 1
    IN  [ k \in 1..count |-> setDate(first, 7 * (k - 1)) ]

\* the cells of the week header: a flex row from the left edge of the
\* timeline, every cell pixelsPerWeek wide
TimelineHeader(startDate, endDate, pixelsPerDay) ==
    LET weeks == generateWeekRange(startDate, endDate)
        pixelsPerWeek == Times(7, pixelsPerDay)
    IN  [ k \in 1..Len(weeks) |->
            [ weekStart |-> weeks[k], width |-> pixelsPerWeek,
              left |-> Times(k - 1, pixelsPerWeek) ] ]

\* the week header of the render
weekHeader ==
    TimelineHeader(tlRender[1].startDate, tlRender[1].endDate, tlRender[1].pixelsPerDay)

----------------------------------------------------------------------------
(* The week header and the bars: claim C30.                                *)

\* C30: in week view every header cell is 80px wide and its left edge is
\* at differenceInDays(W, timelineStart) * pixelsPerDay, W being its week
\* start: the offset at which a bar starting on W is drawn.  (An offset
\* below zero, of a week start before the timeline start, is the left
\* edge of no cell.)
C30_WeekHeaderAlignsWithBars ==
    TimelineDrawn /\ tlView = "week" =>
        \A k \in 1..Len(weekHeader) :
            LET days == differenceInDays(weekHeader[k].weekStart, tlRender[1].startDate)
            IN  /\ weekHeader[k].width = FromInt(80)
                /\ days >= 0
                /\ weekHeader[k].left = Times(days, tlRender[1].pixelsPerDay)

====
